---- MODULE Spec2Model ----
(***************************************************************************)
(* Model of the portfolio site: the category filter of the Portfolio       *)
(* component (src/components/Portfolio.tsx), the Home page's scroll        *)
(* listener (src/app/page.tsx) and the Hero section's scroll buttons       *)
(* (src/designer-landing/index.html, lines 633-757).                       *)
(*                                                                         *)
(* Two specifications share the variables:                                 *)
(*   Spec        the page as a state machine of user and lifecycle events  *)
(*   SpecFilter  the filter expression of Portfolio.tsx:76 applied, once   *)
(*               and then again to its own result, to every bounded list   *)
(***************************************************************************)
EXTENDS Integers, Sequences, FiniteSets, TLC

\* ---------------------------------------------------------------- bounds
\* Longest generated item list.
MaxLen == 3
\* Largest item id of a generated list.
MaxId == 3
\* Largest window scroll offset.
MaxScroll == 2
\* Last tick of the debounce clock.
MaxTime == 5
\* Largest debounce delay, in ticks.
MaxDelay == 2
\* Most calls of the debounced function in one run.
MaxCalls == 3
\* Most statements a transaction callback sends.
MaxQueries == 2
\* Most transaction calls, one after the other.
MaxRuns == 2
\* Most connectToDatabase calls.
MaxConnects == 2
\* Largest options.retries of an httpGet call.
MaxRetries == 5
\* Most calls of a Modal's onClose.
MaxOnCloseCalls == 3
\* Longest password enumerated character by character.
MaxPwLen == 2
\* Largest options.minLength tried besides the default.
MaxMinLength == 2
\* Largest count passed to createMockData.
MaxCount == 3
\* Most scrollIntoView calls followed.
MaxScrollRequests == 2
\* Most click listeners followed on one inner button.
MaxListeners == 3

VARIABLES
    \* --- the page (Spec)
    mounted,        \* the Home tree is mounted
    filter,         \* Portfolio: const [filter, setFilter] = useState('all')
    projects,       \* Portfolio: the contents of the `projects` array of the last render
    displayed,      \* Portfolio: the project cards of the last render, in order
    isInView,       \* Portfolio: useInView(ref, { once: true })
    scrollY,        \* Home: const [scrollY, setScrollY] = useState(0)
    windowScrollY,  \* the browser's window.scrollY
    scrollListeners,\* number of 'scroll' listeners Home holds on window
    scrollTarget,   \* id of the element of the last scrollIntoView request
    \* --- history of the page (written, never read, by the actions)
    lastEvent,      \* the event handled last
    lastSelected,   \* category control clicked last in this session ("none" if none)
    prevSelected,   \* category control clicked before that ("none" if none)
    prevSession,    \* filter value the previous session ended with ("none" if none)
    rendered,       \* <<projects, filter, cards>> of every render so far
    scrollEventPending, \* the window scrolled and its 'scroll' event is not yet dispatched
    scrollYUpdate,  \* the setScrollY update queued for Home's next render
    effectPending,  \* "none" | "mount" | "cleanup": a passive effect step React still owes
    \* --- the filter expression on its own (SpecFilter)
    fpc,            \* "idle" | "start" | "once" | "twice"
    fIn,            \* the item list as it was given
    fItems,         \* the contents of that array now
    fSel,           \* the selected category
    fOut,           \* filter(fIn, fSel)
    fOut2,          \* filter(fOut, fSel)
    \* --- the static landing page (designer-landing/index.html), part of Spec
    landingHash,    \* fragment of the landing page's location ("" if none)
    \* --- the documented Button components (SpecButton), one per framework
    btnDisabled,    \* [framework -> the `disabled` prop / input]
    btnLoading,     \* [framework -> the `loading` prop / input]
    btnHasOnClick,  \* React Button: an onClick prop was passed
    btnLast,        \* the last click: framework, props at the click, handler calls
    \* --- debounce(func, delay) (SpecDebounce)
    dbDelay,        \* the delay the debounced function was created with
    dbNow,          \* the clock, in the unit of delay
    dbTimers,       \* the timers set and neither fired nor cleared: [id, due, args]
    dbTimeoutId,    \* the closure's `timeoutId` (0: undefined)
    dbNextId,       \* the id the next setTimeout returns
    dbInvoked,      \* the invocations of func, in order: [args, at]
    dbCalls,        \* number of calls of the debounced function
    dbLastCall,     \* the last call: [args, at]
    dbBurst,        \* every call so far came less than delay after the one before
    \* --- transaction(callback) (SpecTransaction)
    txPc,           \* "idle" | "connect" | "begin" | "callback" | "commit" |
                    \* "rollback" | "finally" | "settled", and "awaitConnect",
                    \* "awaitBegin", "awaitQuery", "awaitCommit", "awaitRollback"
                    \* while the function waits for a promise to settle
    txRun,          \* number of the transaction call (1..MaxRuns)
    txLog,          \* the statements sent with client.query, in order
    txAcquired,     \* pool.connect() resolved with a client
    txReleased,     \* number of client.release() calls of this run
    txPool,         \* number of Pool objects created; `pool` is the last one (0: undefined)
    txPoolInUse,    \* clients checked out of `pool` and not released
    txOldInUse,     \* clients checked out of replaced Pool objects and not released
    txClientPool,   \* the Pool object this run asked for its client (0: none yet)
    cdPc,           \* connectToDatabase: "idle" | "awaitConnect"
    cdCalls,        \* number of connectToDatabase calls so far
    cdLeaked,       \* clients connectToDatabase checked out and dropped
    cdLast,         \* how the last connectToDatabase call settled: "none" | "resolved" | "rejected"
    txCommitted,    \* COMMIT succeeded
    txResult,       \* the value the callback resolved with ("none" if none)
    txCaught,       \* the error the catch block received ("none" if none)
    txCompletion,   \* completion pending while finally runs: "none" | "return" | "throw"
    txOutcome,      \* "pending" | "resolved" | "rejected"
    txValue,        \* the value resolved with / the error rejected with
    \* --- httpGet(url, options) (SpecHttp)
    hRetries,       \* options.retries
    hPc,            \* "idle" | "awaitFetch" | "awaitJson" | "wait" | "done"
    hI,             \* the loop variable i
    hRequests,      \* number of fetch calls so far
    hWaits,         \* the backoff waits so far, in ms, in order
    hLastError,     \* the error of the last failed attempt ("none" if none)
    hOutcome,       \* "pending" | "resolved" | "rejected"
    hValue,         \* the value resolved with / the error rejected with
    \* --- the documented React Modal and the document it lives in (SpecModal)
    mdMounted,          \* a Modal element is mounted
    mdIsOpen,           \* its isOpen prop (FALSE while unmounted)
    mdCloseOnBackdrop,  \* its closeOnBackdropClick prop
    mdOverflow,         \* document.body.style.overflow ("" until first written)
    mdKeyListeners,     \* keydown listeners on document: the isOpen each closure captured
    mdRendered,         \* the portal content is in document.body
    mdEverMounted,      \* history: a Modal has been mounted at some point
    mdOnCloseCalls,     \* history: how often the parent's onClose has been called
    mdLast,             \* history: the last event and the onClose calls it made
    mdOwed,             \* "none" | "effects" | "cleanups": passive effect work React still owes
    \* --- validatePassword(password, options) (SpecPassword)
    pwPc,           \* "idle" | "input" | "done"
    pwPassword,     \* the password, a sequence of characters
    pwOptions,      \* the options after destructuring with their defaults
    pwResult,       \* the returned { isValid, errors }
    \* --- createMockData(schema, count) (SpecMock)
    mkPc,           \* "idle" | "loop" | "done"
    mkSchema,       \* Object.entries(schema): the fields in order
    mkArgs,         \* whether count was passed, and its value
    mkI,            \* the loop variable i
    mkData,         \* mockData
    mkReturned,     \* the returned value: an array, or one bare record
    \* --- the Hero section's scroll buttons and the document (SpecHero)
    hrDom,          \* the ids of the elements in the document
    hrRequests,     \* the scrollIntoView calls so far: element id and behavior
    hrThrown,       \* a click handler has thrown
    hrLast,         \* history: the last click, and what the document held then
    \* --- the CustomButton web component (SpecCustomButton)
    cbConnected,    \* the element is in a document
    cbAttrs,        \* its observed attributes ("absent" when not set)
    cbInnerDisabled,\* the inner button was rendered with the disabled attribute
    cbListeners,    \* click listeners on the current inner button
    cbLast          \* history: the last click and the custom events it dispatched

pageVars == <<mounted, filter, projects, displayed, isInView, scrollY, windowScrollY,
              scrollListeners, scrollTarget, lastEvent, lastSelected, prevSelected,
              prevSession, rendered, scrollEventPending, scrollYUpdate, effectPending>>
filterVars == <<fpc, fIn, fItems, fSel, fOut, fOut2>>
landingVars == <<landingHash>>
buttonVars == <<btnDisabled, btnLoading, btnHasOnClick, btnLast>>
debounceVars == <<dbDelay, dbNow, dbTimers, dbTimeoutId, dbNextId, dbInvoked, dbCalls,
                  dbLastCall, dbBurst>>
txVars == <<txPc, txRun, txLog, txAcquired, txReleased, txPool, txPoolInUse, txOldInUse, txClientPool, cdPc, cdCalls, cdLeaked, cdLast, txCommitted,
            txResult, txCaught, txCompletion, txOutcome, txValue>>
httpVars == <<hRetries, hPc, hI, hRequests, hWaits, hLastError, hOutcome, hValue>>
modalVars ==
    <<mdMounted, mdIsOpen, mdCloseOnBackdrop, mdOverflow, mdKeyListeners, mdRendered,
      mdEverMounted, mdOnCloseCalls, mdLast, mdOwed>>
pwVars == <<pwPc, pwPassword, pwOptions, pwResult>>
mockVars == <<mkPc, mkSchema, mkArgs, mkI, mkData, mkReturned>>
heroVars == <<hrDom, hrRequests, hrThrown, hrLast>>
cbVars == <<cbConnected, cbAttrs, cbInnerDisabled, cbListeners, cbLast>>
vars ==
    <<pageVars, filterVars, landingVars, buttonVars, debounceVars, txVars, httpVars,
      modalVars,
      pwVars,
      mockVars,
      heroVars,
      cbVars>>

\* What the actions of one part leave alone: the variables of the other parts.
offPageVars == <<filterVars, landingVars, buttonVars, debounceVars, txVars, httpVars, modalVars,
     pwVars,
     mockVars,
     heroVars,
     cbVars>>
offFilterVars == <<pageVars, landingVars, buttonVars, debounceVars, txVars, httpVars, modalVars,
     pwVars,
     mockVars,
     heroVars,
     cbVars>>
offLandingVars == <<pageVars, filterVars, buttonVars, debounceVars, txVars, httpVars, modalVars,
     pwVars,
     mockVars,
     heroVars,
     cbVars>>
offButtonVars == <<pageVars, filterVars, landingVars, debounceVars, txVars, httpVars, modalVars,
     pwVars,
     mockVars,
     heroVars,
     cbVars>>
offDebounceVars == <<pageVars, filterVars, landingVars, buttonVars, txVars, httpVars, modalVars,
     pwVars,
     mockVars,
     heroVars,
     cbVars>>
offTxVars == <<pageVars, filterVars, landingVars, buttonVars, debounceVars, httpVars, modalVars,
     pwVars,
     mockVars,
     heroVars,
     cbVars>>
offHttpVars == <<pageVars, filterVars, landingVars, buttonVars, debounceVars, txVars, modalVars,
     pwVars,
     mockVars,
     heroVars,
     cbVars>>
offModalVars == <<pageVars, filterVars, landingVars, buttonVars, debounceVars, txVars, httpVars,
     pwVars,
     mockVars,
     heroVars,
     cbVars>>
offPwVars ==
    <<pageVars, filterVars, landingVars, buttonVars, debounceVars, txVars, httpVars,
      modalVars,
     mockVars,
     heroVars,
     cbVars>>
offMockVars ==
    <<pageVars, filterVars, landingVars, buttonVars, debounceVars, txVars, httpVars,
      modalVars, pwVars,
     heroVars,
     cbVars>>
offHeroVars ==
    <<pageVars, filterVars, landingVars, buttonVars, debounceVars, txVars, httpVars,
      modalVars, pwVars, mockVars,
     cbVars>>
offCbVars ==
    <<pageVars, filterVars, landingVars, buttonVars, debounceVars, txVars, httpVars,
      modalVars, pwVars, mockVars, heroVars>>

\* ------------------------------------------------------- Portfolio: data
\* Faulty variant of ProjectsLiteral: the third project repeats the id of the first.
ProjectsLiteralRepeatedId ==
    << [id |-> 1, category |-> "mobile"],
       [id |-> 2, category |-> "web"],
       [id |-> 1, category |-> "mobile"],
       [id |-> 4, category |-> "web"],
       [id |-> 5, category |-> "web"],
       [id |-> 6, category |-> "mobile"] >>

\* Faulty variant of ProjectsLiteral: the third project carries a category
\* that no control offers.
ProjectsLiteralWithUntagged ==
    << [id |-> 1, category |-> "mobile"],
       [id |-> 2, category |-> "web"],
       [id |-> 3, category |-> "desktop"],
       [id |-> 4, category |-> "web"],
       [id |-> 5, category |-> "web"],
       [id |-> 6, category |-> "mobile"] >>

\* The `projects` literal, with the two fields the logic reads (display-only
\* fields title, description, image, tags, color are left out).
ProjectsLiteral ==
    << [id |-> 1, category |-> "mobile"],
       [id |-> 2, category |-> "web"],
       [id |-> 3, category |-> "mobile"],
       [id |-> 4, category |-> "web"],
       [id |-> 5, category |-> "web"],
       [id |-> 6, category |-> "mobile"] >>

\* Faulty variant of categories: a control for a category no project has.
categoriesWithDesktop == << "all", "web", "mobile", "desktop" >>

\* The ids of the `categories` literal, in order.
categories == << "all", "web", "mobile" >>

CategoryIds == { categories[i] : i \in 1..Len(categories) }

\* ------------------------------------------------ Portfolio: the filter
\* Faulty variant of categoryEquals: the comparison inverted (!== for ===).
categoryDiffers(project, selected) == project.category # selected

\* The callback of projects.filter: project => project.category === filter
categoryEquals(project, selected) == project.category = selected

\* Array.prototype.filter with that callback, from index i on: the elements
\* the callback accepts, appended in index order to a new array.
RECURSIVE ArrayFilterFrom(_, _, _)
ArrayFilterFrom(arr, selected, i) ==
    IF i > Len(arr) THEN << >>
    ELSE (IF categoryEquals(arr[i], selected) THEN << arr[i] >> ELSE << >>)
         \o ArrayFilterFrom(arr, selected, i + 1)

\* Faulty variant of ArrayFilter: the loop starts one element late.
ArrayFilterSkipFirst(arr, selected) == ArrayFilterFrom(arr, selected, 2)

RECURSIVE ReverseSeq(_)
ReverseSeq(s) == IF s = << >> THEN << >> ELSE ReverseSeq(Tail(s)) \o << Head(s) >>

\* Faulty variant of ArrayFilter: accepted elements are prepended (unshift for push).
ArrayFilterUnshift(arr, selected) == ReverseSeq(ArrayFilterFrom(arr, selected, 1))

\* projects.filter(project => project.category === filter)
ArrayFilter(arr, selected) == ArrayFilterFrom(arr, selected, 1)

\* Faulty variant of filteredProjects: no sentinel branch, "all" is matched as a tag.
filteredProjectsNoSentinel(items, selected) == ArrayFilter(items, selected)

\* Faulty variant of filteredProjects: an empty result falls back to the whole list.
filteredProjectsFallback(items, selected) ==
    IF selected = "all" THEN items
    ELSE IF ArrayFilter(items, selected) = << >> THEN items
         ELSE ArrayFilter(items, selected)

\* const filteredProjects = filter === 'all' ? projects : projects.filter(...)
filteredProjects(items, selected) ==
    IF selected = "all" THEN items ELSE ArrayFilter(items, selected)

\* The contents of the input array after that expression was evaluated:
\* neither branch writes to it (Array.prototype.filter builds a new array).
itemsAfterFilter(items, selected) == items

\* ------------------------------------------- SpecFilter: inputs and steps
Tags == { "mobile", "web", "all" }
SelectableValues == Tags \cup { "desktop" }
ItemUniverse == [ id : 1..MaxId, category : Tags ]

UniqueIds(s) == \A i, j \in 1..Len(s) : s[i].id = s[j].id => i = j

BoundedLists ==
    UNION { { s \in [ 1..n -> ItemUniverse ] : UniqueIds(s) } : n \in 0..MaxLen }

InputLists == BoundedLists \cup { ProjectsLiteral }

FilterIdle ==
    /\ fpc = "idle"
    /\ fIn = << >>
    /\ fItems = << >>
    /\ fSel = "all"
    /\ fOut = << >>
    /\ fOut2 = << >>

InitFilter ==
    /\ fpc = "start"
    /\ fIn \in InputLists
    /\ fItems = fIn
    /\ fSel \in SelectableValues
    /\ fOut = << >>
    /\ fOut2 = << >>

\* Evaluate the expression of line 76 on (fItems, fSel).
ApplyFilter ==
    /\ fpc = "start"
    /\ fOut' = filteredProjects(fItems, fSel)
    /\ fItems' = itemsAfterFilter(fItems, fSel)
    /\ fpc' = "once"
    /\ UNCHANGED << fIn, fSel, fOut2 >>
    /\ UNCHANGED offFilterVars

\* Evaluate it again on its own result.
ApplyFilterAgain ==
    /\ fpc = "once"
    /\ fOut2' = filteredProjects(fOut, fSel)
    /\ fpc' = "twice"
    /\ UNCHANGED << fIn, fItems, fSel, fOut >>
    /\ UNCHANGED offFilterVars

\* -------------------------------------------------------- the page (Spec)
\* ids of the sections the mounted page renders (Hero, About, Portfolio, Contact).
SectionIds == { "hero", "about", "portfolio", "contact" }

\* useState('all'): the value the filter state is created with.
InitialFilter == "all"

\* useState(0): the value Home's scrollY state is created with.
InitialScrollY == 0

\* One run of Portfolio's function body with filter state `selected`: the
\* `projects` literal is built anew, line 76 is evaluated on it, and the
\* grid maps the result to cards.
Render(selected) ==
    /\ projects' = itemsAfterFilter(ProjectsLiteral, selected)
    /\ displayed' = filteredProjects(ProjectsLiteral, selected)
    /\ rendered' = rendered \cup { << ProjectsLiteral, selected, displayed' >> }

\* No state update of Home is queued.
NoScrollUpdate == [ pending |-> FALSE, value |-> InitialScrollY ]

\* The variables of the scroll event, the queued update and the effects.
scheduleVars == << scrollEventPending, scrollYUpdate, effectPending >>

InitPage ==
    /\ mounted = TRUE
    /\ filter = InitialFilter
    /\ projects = itemsAfterFilter(ProjectsLiteral, InitialFilter)
    /\ displayed = filteredProjects(ProjectsLiteral, InitialFilter)
    /\ isInView = FALSE
    /\ scrollY = InitialScrollY
    /\ windowScrollY = 0
    /\ scrollListeners = 0
    /\ scrollTarget = "none"
    /\ lastEvent = "init"
    /\ lastSelected = "none"
    /\ prevSelected = "none"
    /\ prevSession = "none"
    /\ rendered = { << ProjectsLiteral, InitialFilter, displayed >> }
    /\ scrollEventPending = FALSE
    /\ scrollYUpdate = NoScrollUpdate
    /\ effectPending = "mount"

\* Faulty variant of controlIsActive: the highlight stays on the initial control.
controlIsActiveInitialOnly(selected, id) == id = InitialFilter

\* The className of a category button: filter === category.id ? <active> : <plain>
controlIsActive(selected, id) == selected = id

\* The category buttons on screen that are rendered with the active classes,
\* by their position in `categories`; nothing is on screen while unmounted.
ActiveControls ==
    IF mounted
    THEN { i \in 1..Len(categories) : controlIsActive(filter, categories[i]) }
    ELSE {}

\* Faulty variant of SelectCategory: the new filter is applied to the cards on
\* screen instead of to `projects`.
SelectCategoryNarrowing(c) ==
    /\ mounted
    /\ effectPending = "none"
    /\ UNCHANGED scheduleVars
    /\ c \in CategoryIds
    /\ filter' = c
    /\ projects' = itemsAfterFilter(ProjectsLiteral, c)
    /\ displayed' = filteredProjects(displayed, c)
    /\ rendered' = rendered \cup { << ProjectsLiteral, c, displayed' >> }
    /\ lastEvent' = "select"
    /\ UNCHANGED offPageVars
    /\ prevSelected' = lastSelected
    /\ lastSelected' = c
    /\ UNCHANGED << mounted, isInView, scrollY, windowScrollY, scrollListeners,
                    scrollTarget, prevSession >>

\* Click on the control of category c: onClick={() => setFilter(category.id)},
\* and the render that the state update causes within the same event (a
\* click is a discrete event: React renders before it returns, after
\* running any passive effect it still owes).
SelectCategory(c) ==
    /\ mounted
    /\ effectPending = "none"
    /\ UNCHANGED scheduleVars
    /\ c \in CategoryIds
    /\ filter' = c
    /\ Render(c)
    /\ lastEvent' = "select"
    /\ UNCHANGED offPageVars
    /\ prevSelected' = lastSelected
    /\ lastSelected' = c
    /\ UNCHANGED << mounted, isInView, scrollY, windowScrollY, scrollListeners,
                    scrollTarget, prevSession >>

\* Faulty variant of handleScroll: the scroll handler also resets the filter.
handleScrollResetsFilter(y) ==
    /\ scrollYUpdate' = IF mounted THEN [ pending |-> TRUE, value |-> y ]
                                   ELSE scrollYUpdate
    /\ filter' = InitialFilter
    /\ Render(InitialFilter)

\* const handleScroll = () => setScrollY(window.scrollY): the update is
\* queued for a later render (a native 'scroll' listener is not rendered
\* inside the event); on a Home that is no longer mounted setScrollY does
\* nothing.
handleScroll(y) ==
    /\ scrollYUpdate' = IF mounted THEN [ pending |-> TRUE, value |-> y ]
                                   ELSE scrollYUpdate
    /\ UNCHANGED << filter, projects, displayed, rendered >>

\* The window scrolls to offset y: window.scrollY reads y from now on, and a
\* 'scroll' event is due at the next rendering opportunity (one event, however
\* often the window scrolls until then).
WindowScroll(y) ==
    /\ y \in 0..MaxScroll
    /\ y # windowScrollY
    /\ windowScrollY' = y
    /\ scrollEventPending' = TRUE
    /\ lastEvent' = "windowScroll"
    /\ UNCHANGED offPageVars
    /\ UNCHANGED << mounted, filter, projects, displayed, isInView, scrollY,
                    scrollListeners, scrollTarget, lastSelected, prevSelected,
                    prevSession, rendered, scrollYUpdate, effectPending >>

\* The 'scroll' event is dispatched to the listeners registered on window.
ScrollEventDispatch ==
    /\ scrollEventPending
    /\ scrollEventPending' = FALSE
    /\ IF scrollListeners > 0
         THEN /\ handleScroll(windowScrollY)
              /\ lastEvent' = "scroll"
         ELSE /\ UNCHANGED << scrollYUpdate, filter, projects, displayed, rendered >>
              /\ lastEvent' = "scrollUnheard"
    /\ UNCHANGED offPageVars
    /\ UNCHANGED << mounted, isInView, scrollY, windowScrollY, scrollListeners,
                    scrollTarget, lastSelected, prevSelected, prevSession,
                    effectPending >>

\* React renders Home and its children with the queued scrollY.
RenderScrollUpdate ==
    /\ mounted
    /\ effectPending = "none"
    /\ scrollYUpdate.pending
    /\ scrollY' = scrollYUpdate.value
    /\ scrollYUpdate' = NoScrollUpdate
    /\ Render(filter)
    /\ lastEvent' = "scrollRender"
    /\ UNCHANGED offPageVars
    /\ UNCHANGED << mounted, filter, isInView, windowScrollY, scrollListeners,
                    scrollTarget, lastSelected, prevSelected, prevSession,
                    scrollEventPending, effectPending >>

\* The portfolio section enters the viewport: useInView(ref, { once: true })
\* turns true, never false again, and Portfolio renders.
EnterViewport ==
    /\ mounted
    /\ effectPending = "none"
    /\ UNCHANGED scheduleVars
    /\ ~isInView
    /\ isInView' = TRUE
    /\ Render(filter)
    /\ lastEvent' = "inview"
    /\ UNCHANGED offPageVars
    /\ UNCHANGED << mounted, filter, scrollY, windowScrollY, scrollListeners,
                    scrollTarget, lastSelected, prevSelected, prevSession >>

\* document.getElementById(id) followed by scrollIntoView when it is found:
\* the target of the page's last smooth-scroll request.
scrollIntoViewIfPresent(id) == IF id \in SectionIds THEN id ELSE scrollTarget

\* Hero's "scroll hint" button: onClick={scrollToAbout}
HeroScrollToAbout ==
    /\ mounted
    /\ UNCHANGED scheduleVars
    /\ scrollTarget' = scrollIntoViewIfPresent("about")
    /\ lastEvent' = "heroAbout"
    /\ UNCHANGED offPageVars
    /\ UNCHANGED << mounted, filter, projects, displayed, isInView, scrollY,
                    windowScrollY, scrollListeners, lastSelected, prevSelected,
                    prevSession, rendered >>

\* Hero's "contact me" button:
\* onClick={() => document.getElementById('contact')?.scrollIntoView(...)}
HeroContactClick ==
    /\ mounted
    /\ UNCHANGED scheduleVars
    /\ scrollTarget' = scrollIntoViewIfPresent("contact")
    /\ lastEvent' = "heroContact"
    /\ UNCHANGED offPageVars
    /\ UNCHANGED << mounted, filter, projects, displayed, isInView, scrollY,
                    windowScrollY, scrollListeners, lastSelected, prevSelected,
                    prevSession, rendered >>

\* Click on the i-th project card (or its overlay buttons): no handler.
ProjectCardClick(i) ==
    /\ mounted
    /\ UNCHANGED scheduleVars
    /\ i \in 1..Len(displayed)
    /\ lastEvent' = "card"
    /\ UNCHANGED offPageVars
    /\ UNCHANGED << mounted, filter, projects, displayed, isInView, scrollY,
                    windowScrollY, scrollListeners, scrollTarget, lastSelected,
                    prevSelected, prevSession, rendered >>

\* Click on the "view more" button under the grid: no handler.
ViewMoreClick ==
    /\ mounted
    /\ UNCHANGED scheduleVars
    /\ lastEvent' = "viewMore"
    /\ UNCHANGED offPageVars
    /\ UNCHANGED << mounted, filter, projects, displayed, isInView, scrollY,
                    windowScrollY, scrollListeners, scrollTarget, lastSelected,
                    prevSelected, prevSession, rendered >>

\* The page is torn down: nothing stays rendered and the component state,
\* a queued update included, is dropped (the variables keep their last
\* values, which nothing reads). The cleanup of the scroll effect is a
\* passive effect step that React runs later. (An effect still owed from the
\* mount runs before React commits the removal.)
Unmount ==
    /\ mounted
    /\ effectPending = "none"
    /\ mounted' = FALSE
    /\ displayed' = << >>
    /\ prevSession' = filter
    /\ scrollYUpdate' = NoScrollUpdate
    /\ effectPending' = "cleanup"
    /\ lastEvent' = "unmount"
    /\ UNCHANGED offPageVars
    /\ UNCHANGED << filter, projects, isInView, scrollY, windowScrollY, scrollListeners,
                    scrollTarget, lastSelected, prevSelected, rendered,
                    scrollEventPending >>

\* Faulty variant of UnmountCleanup: the listener is not removed.
UnmountCleanupKeepingListener ==
    /\ effectPending = "cleanup"
    /\ effectPending' = "none"
    /\ lastEvent' = "cleanup"
    /\ UNCHANGED offPageVars
    /\ UNCHANGED << mounted, filter, projects, displayed, isInView, scrollY,
                    windowScrollY, scrollListeners, scrollTarget, lastSelected,
                    prevSelected, prevSession, rendered, scrollEventPending,
                    scrollYUpdate >>

\* The cleanup of the effect runs:
\* return () => window.removeEventListener('scroll', handleScroll)
UnmountCleanup ==
    /\ effectPending = "cleanup"
    /\ scrollListeners' = scrollListeners - 1
    /\ effectPending' = "none"
    /\ lastEvent' = "cleanup"
    /\ UNCHANGED offPageVars
    /\ UNCHANGED << mounted, filter, projects, displayed, isInView, scrollY,
                    windowScrollY, scrollTarget, lastSelected, prevSelected,
                    prevSession, rendered, scrollEventPending, scrollYUpdate >>

\* The page is mounted with filter state f: every useState takes its initial
\* value and the first render is committed. The scroll effect is a passive
\* effect that React runs later. (A cleanup still owed from the unmount runs
\* before React renders again.)
MountWith(f) ==
    /\ ~mounted
    /\ effectPending = "none"
    /\ mounted' = TRUE
    /\ filter' = f
    /\ Render(f)
    /\ isInView' = FALSE
    /\ scrollY' = InitialScrollY
    /\ scrollYUpdate' = NoScrollUpdate
    /\ effectPending' = "mount"
    /\ scrollTarget' = "none"
    /\ lastEvent' = "mount"
    /\ UNCHANGED offPageVars
    /\ lastSelected' = "none"
    /\ prevSelected' = "none"
    /\ UNCHANGED << windowScrollY, prevSession, scrollListeners, scrollEventPending >>

\* The mount effect runs: window.addEventListener('scroll', handleScroll)
MountEffect ==
    /\ effectPending = "mount"
    /\ scrollListeners' = scrollListeners + 1
    /\ effectPending' = "none"
    /\ lastEvent' = "mountEffect"
    /\ UNCHANGED offPageVars
    /\ UNCHANGED << mounted, filter, projects, displayed, isInView, scrollY,
                    windowScrollY, scrollTarget, lastSelected, prevSelected,
                    prevSession, rendered, scrollEventPending, scrollYUpdate >>

\* Faulty variant of Mount: the selection of the previous session is restored.
MountRestoringFilter == MountWith(filter)

\* Reload (remount) of the page.
Mount == MountWith(InitialFilter)

\* ---------------------------------------- the landing page (part of SpecHero)
\* The fragments of the landing page's links: the three nav links carry
\* href `#${idx}` for idx = 0, 1, 2, and the hero link carries '#contact'.
LandingLinkTargets == { "0", "1", "2", "contact" }

\* The id attributes of the landing page's document: only <div id="root">;
\* none of its sections (Hero, Features, Portfolio, Footer) carries an id.
LandingElementIds == { "root" }

InitLanding == landingHash = ""

\* Click on a link of the landing page: the browser sets the fragment, and
\* scrolls only when an element with that id exists.
LandingLinkClick(t) ==
    /\ t \in LandingLinkTargets
    /\ landingHash' = t
    /\ UNCHANGED offLandingVars

\* The element ids that Hero's buttons look up with getElementById.
HeroLookupIds == { "about", "contact" }

\* ------------------------------- documented Button components (SpecButton)
Frameworks == { "react", "vue", "angular" }

\* Faulty variant of ButtonHandleClick: the loading state is not looked at.
ButtonHandleClickIgnoresLoading(disabled, loading, hasOnClick) ==
    IF ~disabled /\ hasOnClick THEN 1 ELSE 0

\* React Button.handleClick: the number of onClick(event) calls of one click.
\*   if (!disabled && !loading && onClick) { onClick(event); }
ButtonHandleClick(disabled, loading, hasOnClick) ==
    IF ~disabled /\ ~loading /\ hasOnClick THEN 1 ELSE 0

\* Faulty variant of VButtonHandleClick: the guard is dropped.
VButtonHandleClickUnguarded(disabled, loading) == 1

\* VButton.handleClick: the number of emit('click', event) calls of one click.
\*   if (!props.disabled && !props.loading) { emit('click', event); }
VButtonHandleClick(disabled, loading) ==
    IF ~disabled /\ ~loading THEN 1 ELSE 0

\* ButtonComponent.onButtonClick: the number of this.click.emit(event) calls.
\*   if (!this.disabled && !this.loading) { this.click.emit(event); }
AngularOnButtonClick(disabled, loading) ==
    IF ~disabled /\ ~loading THEN 1 ELSE 0

\* The click handler the template of each framework's button binds.
ClickHandlerCalls(fw, disabled, loading, hasOnClick) ==
    CASE fw = "react"   -> ButtonHandleClick(disabled, loading, hasOnClick)
      [] fw = "vue"     -> VButtonHandleClick(disabled, loading)
      [] fw = "angular" -> AngularOnButtonClick(disabled, loading)

\* Defaults of the props: disabled = false, loading = false, no onClick.
InitButton ==
    /\ btnDisabled = [ fw \in Frameworks |-> FALSE ]
    /\ btnLoading = [ fw \in Frameworks |-> FALSE ]
    /\ btnHasOnClick = FALSE
    /\ btnLast = [ fw |-> "none", disabled |-> FALSE, loading |-> FALSE,
                   listening |-> FALSE, calls |-> 0 ]

\* The parent renders the button of framework fw with new disabled / loading.
SetButtonProps(fw, d, l) ==
    /\ fw \in Frameworks
    /\ d \in BOOLEAN
    /\ l \in BOOLEAN
    /\ << d, l >> # << btnDisabled[fw], btnLoading[fw] >>
    /\ btnDisabled' = [ btnDisabled EXCEPT ![fw] = d ]
    /\ btnLoading' = [ btnLoading EXCEPT ![fw] = l ]
    /\ UNCHANGED << btnHasOnClick, btnLast >>
    /\ UNCHANGED offButtonVars

\* The parent renders the React Button with or without an onClick prop.
SetButtonOnClick(h) ==
    /\ h \in BOOLEAN
    /\ h # btnHasOnClick
    /\ btnHasOnClick' = h
    /\ UNCHANGED << btnDisabled, btnLoading, btnLast >>
    /\ UNCHANGED offButtonVars

\* A click event reaches the <button> of framework fw and runs its handler.
\* (Vue and Angular parents always listen: @click / (click) on the tag.)
ButtonClick(fw) ==
    /\ fw \in Frameworks
    /\ btnLast' = [ fw |-> fw,
                    disabled |-> btnDisabled[fw],
                    loading |-> btnLoading[fw],
                    listening |-> (fw = "react" => btnHasOnClick),
                    calls |-> ClickHandlerCalls(fw, btnDisabled[fw], btnLoading[fw],
                                                btnHasOnClick) ]
    /\ UNCHANGED << btnDisabled, btnLoading, btnHasOnClick >>
    /\ UNCHANGED offButtonVars

NextButton ==
    \/ \E fw \in Frameworks, d \in BOOLEAN, l \in BOOLEAN : SetButtonProps(fw, d, l)
    \/ \E h \in BOOLEAN : SetButtonOnClick(h)
    \/ \E fw \in Frameworks : ButtonClick(fw)

\* ------------------------------------------ debounce (SpecDebounce)
\* The arguments of the calls (the queries of the usage example).
DebounceArgs == { "test", "test query", "test query final" }

DebounceIdle ==
    /\ dbDelay = 1
    /\ dbNow = 0
    /\ dbTimers = { }
    /\ dbTimeoutId = 0
    /\ dbNextId = 1
    /\ dbInvoked = << >>
    /\ dbCalls = 0
    /\ dbLastCall = [ args |-> "", at |-> 0 ]
    /\ dbBurst = TRUE

\* debounce(func, delay): the closure is created with timeoutId undefined.
InitDebounce ==
    /\ dbDelay \in 1..MaxDelay
    /\ dbNow = 0
    /\ dbTimers = { }
    /\ dbTimeoutId = 0
    /\ dbNextId = 1
    /\ dbInvoked = << >>
    /\ dbCalls = 0
    /\ dbLastCall = [ args |-> "", at |-> 0 ]
    /\ dbBurst = TRUE

\* clearTimeout(id): the timer with that id, if still set, is dropped.
clearTimeout(timers, id) == { t \in timers : t.id # id }

\* Faulty variant of timersAfterCall: the pending timer is not cleared.
timersAfterCallNoClear(timers, id, newId, due, args) ==
    timers \cup { [ id |-> newId, due |-> due, args |-> args ] }

\* The timers after one call of the debounced function:
\*   clearTimeout(timeoutId);
\*   timeoutId = setTimeout(() => func.apply(this, args), delay);
timersAfterCall(timers, id, newId, due, args) ==
    clearTimeout(timers, id) \cup { [ id |-> newId, due |-> due, args |-> args ] }

\* A call of the debounced function with arguments a.
DebouncedCall(a) ==
    /\ a \in DebounceArgs
    /\ dbCalls < MaxCalls
    /\ dbTimers' = timersAfterCall(dbTimers, dbTimeoutId, dbNextId, dbNow + dbDelay, a)
    /\ dbTimeoutId' = dbNextId
    /\ dbNextId' = dbNextId + 1
    /\ dbCalls' = dbCalls + 1
    /\ dbLastCall' = [ args |-> a, at |-> dbNow ]
    /\ dbBurst' = (dbBurst /\ (dbCalls = 0 \/ dbNow - dbLastCall.at < dbDelay))
    /\ UNCHANGED << dbDelay, dbNow, dbInvoked >>
    /\ UNCHANGED offDebounceVars

\* A timer that is due runs its callback, () => func.apply(this, args), at
\* its due time or later (the event loop may be busy).
TimerFire(t) ==
    /\ t \in dbTimers
    /\ dbNow >= t.due
    /\ dbTimers' = dbTimers \ { t }
    /\ dbInvoked' = Append(dbInvoked, [ args |-> t.args, at |-> dbNow ])
    /\ UNCHANGED << dbDelay, dbNow, dbTimeoutId, dbNextId, dbCalls, dbLastCall, dbBurst >>
    /\ UNCHANGED offDebounceVars

\* Time passes.
DebounceTick ==
    /\ dbNow < MaxTime
    /\ dbNow' = dbNow + 1
    /\ UNCHANGED << dbDelay, dbTimers, dbTimeoutId, dbNextId, dbInvoked, dbCalls,
                    dbLastCall, dbBurst >>
    /\ UNCHANGED offDebounceVars

NextDebounce ==
    \/ \E a \in DebounceArgs : DebouncedCall(a)
    \/ \E t \in dbTimers : TimerFire(t)
    \/ DebounceTick

\* ------------------------------------- transaction (SpecTransaction)
\* The values a callback resolves with.
TxResults == { "row1", "row2" }

\* The variables only connectToDatabase writes.
cdVars == << txPool, cdPc, cdCalls, cdLeaked, cdLast >>

\* let pool;  and no call made yet.
TxIdle ==
    /\ txPc = "idle"
    /\ txRun = 0
    /\ txLog = << >>
    /\ txAcquired = FALSE
    /\ txReleased = 0
    /\ txPool = 0
    /\ txPoolInUse = 0
    /\ txOldInUse = 0
    /\ txClientPool = 0
    /\ cdPc = "idle"
    /\ cdCalls = 0
    /\ cdLeaked = 0
    /\ cdLast = "none"
    /\ txCommitted = FALSE
    /\ txResult = "none"
    /\ txCaught = "none"
    /\ txCompletion = "none"
    /\ txOutcome = "pending"
    /\ txValue = "none"

\* connectToDatabase(connectionString) is called: pool = new Pool({...})
\* replaces the pool, then pool.connect() is requested and the function waits.
ConnectToDatabase ==
    /\ cdPc = "idle"
    /\ cdCalls < MaxConnects
    /\ cdCalls' = cdCalls + 1
    /\ txPool' = txPool + 1
    /\ txOldInUse' = txOldInUse + txPoolInUse
    /\ txPoolInUse' = 0
    /\ cdPc' = "awaitConnect"
    /\ UNCHANGED << cdLeaked, cdLast >>
    /\ UNCHANGED << txPc, txRun, txLog, txAcquired, txReleased, txClientPool,
                    txCommitted, txResult, txCaught, txCompletion, txOutcome, txValue >>
    /\ UNCHANGED offTxVars

\* await pool.connect() of connectToDatabase settles: the client it resolves
\* with is dropped without release() and the pool is returned; a failure is
\* logged and thrown again. Either way `pool` stays assigned.
ConnectToDatabaseSettled(ok) ==
    /\ cdPc = "awaitConnect"
    /\ cdPc' = "idle"
    /\ IF ok
         THEN /\ txPoolInUse' = txPoolInUse + 1
              /\ cdLeaked' = cdLeaked + 1
              /\ cdLast' = "resolved"
         ELSE /\ cdLast' = "rejected"
              /\ UNCHANGED << txPoolInUse, cdLeaked >>
    /\ UNCHANGED << txPool, cdCalls, txOldInUse >>
    /\ UNCHANGED << txPc, txRun, txLog, txAcquired, txReleased, txClientPool,
                    txCommitted, txResult, txCaught, txCompletion, txOutcome, txValue >>
    /\ UNCHANGED offTxVars

\* transaction(callback) is called: nothing has run yet.
TxStart ==
    /\ txPc \in { "idle", "settled" }
    /\ txRun < MaxRuns
    /\ txPc' = "connect"
    /\ txRun' = txRun + 1
    /\ txLog' = << >>
    /\ txAcquired' = FALSE
    /\ txReleased' = 0
    /\ txClientPool' = 0
    /\ txCommitted' = FALSE
    /\ txResult' = "none"
    /\ txCaught' = "none"
    /\ txCompletion' = "none"
    /\ txOutcome' = "pending"
    /\ txValue' = "none"
    /\ UNCHANGED << txPoolInUse, txOldInUse >>
    /\ UNCHANGED cdVars
    /\ UNCHANGED offTxVars

\* const client = await pool.connect();  the client is requested from the
\* current pool and the function waits. While `pool` is undefined the
\* property access throws a TypeError, which rejects the call (the statement
\* is outside the try).
TxConnect ==
    /\ txPc = "connect"
    /\ IF txPool = 0
         THEN /\ txOutcome' = "rejected"
              /\ txValue' = "E_type"
              /\ txPc' = "settled"
              /\ UNCHANGED txClientPool
         ELSE /\ txClientPool' = txPool
              /\ txPc' = "awaitConnect"
              /\ UNCHANGED << txOutcome, txValue >>
    /\ UNCHANGED << txRun, txLog, txAcquired, txReleased, txPoolInUse, txOldInUse,
                    txCommitted, txResult, txCaught, txCompletion >>
    /\ UNCHANGED cdVars
    /\ UNCHANGED offTxVars

\* pool.connect() settles (outside the try: a failure rejects the call at
\* once, with no client to release). The client is checked out of the Pool
\* object that was asked, which `pool` may no longer refer to.
TxConnectSettled(ok) ==
    /\ txPc = "awaitConnect"
    /\ IF ok
         THEN /\ txAcquired' = TRUE
              /\ IF txClientPool = txPool
                   THEN txPoolInUse' = txPoolInUse + 1 /\ UNCHANGED txOldInUse
                   ELSE txOldInUse' = txOldInUse + 1 /\ UNCHANGED txPoolInUse
              /\ txPc' = "begin"
              /\ UNCHANGED << txOutcome, txValue >>
         ELSE /\ txOutcome' = "rejected"
              /\ txValue' = "E_connect"
              /\ txPc' = "settled"
              /\ UNCHANGED << txAcquired, txPoolInUse, txOldInUse >>
    /\ UNCHANGED << txRun, txLog, txReleased, txClientPool, txCommitted, txResult,
                    txCaught, txCompletion >>
    /\ UNCHANGED cdVars
    /\ UNCHANGED offTxVars

\* await client.query('BEGIN');  the statement is sent and the function
\* waits for the promise to settle.
TxBegin ==
    /\ txPc = "begin"
    /\ txLog' = Append(txLog, "BEGIN")
    /\ txPc' = "awaitBegin"
    /\ UNCHANGED << txRun, txAcquired, txReleased, txPoolInUse, txOldInUse, txClientPool, txCommitted, txResult,
                    txCaught, txCompletion, txOutcome, txValue >>
    /\ UNCHANGED cdVars
    /\ UNCHANGED offTxVars

\* The promise of BEGIN settles: the try block goes on, or the error is caught.
TxBeginSettled(ok) ==
    /\ txPc = "awaitBegin"
    /\ IF ok
         THEN txPc' = "callback" /\ UNCHANGED txCaught
         ELSE txPc' = "rollback" /\ txCaught' = "E_begin"
    /\ UNCHANGED << txRun, txLog, txAcquired, txReleased, txPoolInUse, txOldInUse, txClientPool, txCommitted,
                    txResult, txCompletion, txOutcome, txValue >>
    /\ UNCHANGED cdVars
    /\ UNCHANGED offTxVars

\* The callback sends a statement with client.query (as the usage example's
\* INSERTs) and waits for it.
TxCallbackQuery ==
    /\ txPc = "callback"
    /\ Len(txLog) < 1 + MaxQueries
    /\ txLog' = Append(txLog, "QUERY")
    /\ txPc' = "awaitQuery"
    /\ UNCHANGED << txRun, txAcquired, txReleased, txPoolInUse, txOldInUse, txClientPool, txCommitted, txResult,
                    txCaught, txCompletion, txOutcome, txValue >>
    /\ UNCHANGED cdVars
    /\ UNCHANGED offTxVars

\* The statement's promise settles: the callback goes on, or it rejects with
\* the statement's error.
TxCallbackQuerySettled(ok) ==
    /\ txPc = "awaitQuery"
    /\ IF ok
         THEN txPc' = "callback" /\ UNCHANGED txCaught
         ELSE txPc' = "rollback" /\ txCaught' = "E_callback"
    /\ UNCHANGED << txRun, txLog, txAcquired, txReleased, txPoolInUse, txOldInUse, txClientPool, txCommitted,
                    txResult, txCompletion, txOutcome, txValue >>
    /\ UNCHANGED cdVars
    /\ UNCHANGED offTxVars

\* The callback throws an error of its own (no statement involved).
TxCallbackThrow ==
    /\ txPc = "callback"
    /\ txCaught' = "E_custom"
    /\ txPc' = "rollback"
    /\ UNCHANGED << txRun, txLog, txAcquired, txReleased, txPoolInUse, txOldInUse, txClientPool, txCommitted,
                    txResult, txCompletion, txOutcome, txValue >>
    /\ UNCHANGED cdVars
    /\ UNCHANGED offTxVars

\* const result = await callback(client);  resolved with r
TxCallbackReturn(r) ==
    /\ txPc = "callback"
    /\ r \in TxResults
    /\ txResult' = r
    /\ txPc' = "commit"
    /\ UNCHANGED << txRun, txLog, txAcquired, txReleased, txPoolInUse, txOldInUse, txClientPool, txCommitted,
                    txCaught, txCompletion, txOutcome, txValue >>
    /\ UNCHANGED cdVars
    /\ UNCHANGED offTxVars

\* await client.query('COMMIT');  sent, not yet settled.
TxCommit ==
    /\ txPc = "commit"
    /\ txLog' = Append(txLog, "COMMIT")
    /\ txPc' = "awaitCommit"
    /\ UNCHANGED << txRun, txAcquired, txReleased, txPoolInUse, txOldInUse, txClientPool, txCommitted, txResult,
                    txCaught, txCompletion, txOutcome, txValue >>
    /\ UNCHANGED cdVars
    /\ UNCHANGED offTxVars

\* COMMIT settles: return result; or the error is caught.
TxCommitSettled(ok) ==
    /\ txPc = "awaitCommit"
    /\ IF ok
         THEN /\ txCommitted' = TRUE
              /\ txCompletion' = "return"
              /\ txValue' = txResult
              /\ txPc' = "finally"
              /\ UNCHANGED txCaught
         ELSE /\ txCaught' = "E_commit"
              /\ txPc' = "rollback"
              /\ UNCHANGED << txCommitted, txCompletion, txValue >>
    /\ UNCHANGED << txRun, txLog, txAcquired, txReleased, txPoolInUse, txOldInUse, txClientPool, txResult,
                    txOutcome >>
    /\ UNCHANGED cdVars
    /\ UNCHANGED offTxVars

\* catch (error) { await client.query('ROLLBACK'); ... }  sent, not yet settled.
TxRollback ==
    /\ txPc = "rollback"
    /\ txLog' = Append(txLog, "ROLLBACK")
    /\ txPc' = "awaitRollback"
    /\ UNCHANGED << txRun, txAcquired, txReleased, txPoolInUse, txOldInUse, txClientPool, txCommitted, txResult,
                    txCaught, txCompletion, txOutcome, txValue >>
    /\ UNCHANGED cdVars
    /\ UNCHANGED offTxVars

\* ROLLBACK settles: `throw error` rethrows the caught error; a ROLLBACK that
\* throws leaves the catch block with its own error.
TxRollbackSettled(ok) ==
    /\ txPc = "awaitRollback"
    /\ txCompletion' = "throw"
    /\ txValue' = IF ok THEN txCaught ELSE "E_rollback"
    /\ txPc' = "finally"
    /\ UNCHANGED << txRun, txLog, txAcquired, txReleased, txPoolInUse, txOldInUse, txClientPool, txCommitted,
                    txResult, txCaught, txOutcome >>
    /\ UNCHANGED cdVars
    /\ UNCHANGED offTxVars

\* Faulty variant of TxFinally: the client is released on success only.
TxFinallyReleaseOnSuccessOnly ==
    /\ txPc = "finally"
    /\ txReleased' = IF txCompletion = "return" THEN txReleased + 1 ELSE txReleased
    /\ IF txCompletion # "return"
         THEN UNCHANGED << txPoolInUse, txOldInUse >>
         ELSE IF txClientPool = txPool
                THEN txPoolInUse' = txPoolInUse - 1 /\ UNCHANGED txOldInUse
                ELSE txOldInUse' = txOldInUse - 1 /\ UNCHANGED txPoolInUse
    /\ txOutcome' = IF txCompletion = "return" THEN "resolved" ELSE "rejected"
    /\ txPc' = "settled"
    /\ UNCHANGED << txRun, txLog, txAcquired, txClientPool, txCommitted, txResult,
                    txCaught, txCompletion, txValue >>
    /\ UNCHANGED cdVars
    /\ UNCHANGED offTxVars

\* finally { client.release(); }  returns the client to the Pool object it
\* came from, and then the pending completion settles the promise: the
\* returned result, or the thrown error.
TxFinally ==
    /\ txPc = "finally"
    /\ txReleased' = txReleased + 1
    /\ IF txClientPool = txPool
         THEN txPoolInUse' = txPoolInUse - 1 /\ UNCHANGED txOldInUse
         ELSE txOldInUse' = txOldInUse - 1 /\ UNCHANGED txPoolInUse
    /\ txOutcome' = IF txCompletion = "return" THEN "resolved" ELSE "rejected"
    /\ txPc' = "settled"
    /\ UNCHANGED << txRun, txLog, txAcquired, txClientPool, txCommitted, txResult,
                    txCaught, txCompletion, txValue >>
    /\ UNCHANGED cdVars
    /\ UNCHANGED offTxVars

NextTx ==
    \/ ConnectToDatabase
    \/ \E ok \in BOOLEAN : ConnectToDatabaseSettled(ok)
    \/ TxStart
    \/ TxConnect
    \/ \E ok \in BOOLEAN : TxConnectSettled(ok)
    \/ TxBegin
    \/ \E ok \in BOOLEAN : TxBeginSettled(ok)
    \/ TxCallbackQuery
    \/ \E ok \in BOOLEAN : TxCallbackQuerySettled(ok)
    \/ TxCallbackThrow
    \/ \E r \in TxResults : TxCallbackReturn(r)
    \/ TxCommit
    \/ \E ok \in BOOLEAN : TxCommitSettled(ok)
    \/ TxRollback
    \/ \E ok \in BOOLEAN : TxRollbackSettled(ok)
    \/ TxFinally

\* ------------------------------------------------ httpGet (SpecHttp)
\* const { retries = 3 } = options
DefaultRetries == 3

\* The factor of the backoff wait: 1000 * Math.pow(2, i)
BackoffBaseMs == 1000

RECURSIVE Pow2(_)
Pow2(n) == IF n = 0 THEN 1 ELSE 2 * Pow2(n - 1)

\* The bodies response.json() can yield.
HttpData == { "users", "empty" }

\* The errors thrown inside the try block: fetch rejects, !response.ok,
\* response.json() rejects.
HttpErrors == { "E_network", "E_status", "E_json" }

HttpIdle ==
    /\ hRetries = DefaultRetries
    /\ hPc = "idle"
    /\ hI = 0
    /\ hRequests = 0
    /\ hWaits = << >>
    /\ hLastError = "none"
    /\ hOutcome = "pending"
    /\ hValue = "none"

\* for (let i = 0; i < retries; i++) { try { ... await fetch(url, ...) }}
\* The loop condition is tested with i: when it holds, fetch is called and
\* the function waits for the response; when it fails, the function body ends
\* without a return statement and the promise resolves with undefined.
HttpLoopTest(i, retries) ==
    IF i < retries
      THEN /\ hRequests' = hRequests + 1
           /\ hPc' = "awaitFetch"
           /\ UNCHANGED << hOutcome, hValue >>
      ELSE /\ hOutcome' = "resolved"
           /\ hValue' = "undefined"
           /\ hPc' = "done"
           /\ UNCHANGED hRequests

\* catch (error) {
\*   if (i === retries - 1) throw error;
\*   await new Promise(resolve => setTimeout(resolve, 1000 * Math.pow(2, i)));
\* }
HttpCatch(e) ==
    /\ hLastError' = e
    /\ IF hI = hRetries - 1
         THEN /\ hOutcome' = "rejected"
              /\ hValue' = e
              /\ hPc' = "done"
              /\ UNCHANGED hWaits
         ELSE /\ hWaits' = Append(hWaits, BackoffBaseMs * Pow2(hI))
              /\ hPc' = "wait"
              /\ UNCHANGED << hOutcome, hValue >>

\* httpGet(url, options) is called: options.retries is any count, the
\* default included; the body runs up to its first await.
HttpCall(retries) ==
    /\ hPc = "idle"
    /\ retries \in 0..MaxRetries
    /\ hRetries' = retries
    /\ hI' = 0
    /\ HttpLoopTest(0, retries)
    /\ UNCHANGED << hWaits, hLastError >>
    /\ UNCHANGED offHttpVars

\* The promise of fetch resolves with a response: with response.ok the
\* function calls response.json() and waits for it, otherwise it throws
\* new Error(`HTTP error! status: ...`) into the catch block.
HttpFetchResolved(ok) ==
    /\ hPc = "awaitFetch"
    /\ IF ok
         THEN /\ hPc' = "awaitJson"
              /\ UNCHANGED << hLastError, hWaits, hOutcome, hValue >>
         ELSE HttpCatch("E_status")
    /\ UNCHANGED << hRetries, hI, hRequests >>
    /\ UNCHANGED offHttpVars

\* The promise of fetch rejects.
HttpFetchRejected ==
    /\ hPc = "awaitFetch"
    /\ HttpCatch("E_network")
    /\ UNCHANGED << hRetries, hI, hRequests >>
    /\ UNCHANGED offHttpVars

\* response.json() resolves with d: return await response.json();
HttpJsonResolved(d) ==
    /\ hPc = "awaitJson"
    /\ d \in HttpData
    /\ hOutcome' = "resolved"
    /\ hValue' = d
    /\ hPc' = "done"
    /\ UNCHANGED << hRetries, hI, hRequests, hWaits, hLastError >>
    /\ UNCHANGED offHttpVars

\* response.json() rejects.
HttpJsonRejected ==
    /\ hPc = "awaitJson"
    /\ HttpCatch("E_json")
    /\ UNCHANGED << hRetries, hI, hRequests >>
    /\ UNCHANGED offHttpVars

\* The backoff timer fires: i++, the loop condition is tested again and the
\* next fetch is called.
HttpBackoffElapsed ==
    /\ hPc = "wait"
    /\ hI' = hI + 1
    /\ HttpLoopTest(hI + 1, hRetries)
    /\ UNCHANGED << hRetries, hWaits, hLastError >>
    /\ UNCHANGED offHttpVars

NextHttp ==
    \/ \E retries \in 0..MaxRetries : HttpCall(retries)
    \/ \E ok \in BOOLEAN : HttpFetchResolved(ok)
    \/ HttpFetchRejected
    \/ \E d \in HttpData : HttpJsonResolved(d)
    \/ HttpJsonRejected
    \/ HttpBackoffElapsed

\* ------------------------------------------------ Modal (SpecModal)
\* Keys a keydown event can carry.
Keys == { "Escape", "Enter" }

\* Elements of the rendered modal a click can land on.
ClickTargets == { "backdrop", "content", "closeButton" }

\* closeOnBackdropClick = true
DefaultCloseOnBackdropClick == TRUE

NoModalEvent ==
    [ kind |-> "none", key |-> "none", target |-> "none", wasOpen |-> FALSE,
      closeOnBackdrop |-> FALSE, escapeCalls |-> 0, backdropCalls |-> 0,
      closeButtonCalls |-> 0, owed |-> "none" ]

InitModal ==
    /\ mdMounted = FALSE
    /\ mdIsOpen = FALSE
    /\ mdCloseOnBackdrop = DefaultCloseOnBackdropClick
    /\ mdOverflow = ""
    /\ mdKeyListeners = {}
    /\ mdRendered = FALSE
    /\ mdEverMounted = FALSE
    /\ mdOnCloseCalls = 0
    /\ mdLast = NoModalEvent
    /\ mdOwed = "none"

\* if (event.key === 'Escape' && isOpen) onClose();
handleEscapeIgnoresIsOpen(key, isOpen) == key = "Escape"

handleEscape(key, isOpen) == key = "Escape" /\ isOpen

\* if (closeOnBackdropClick && event.target === event.currentTarget) onClose();
\* currentTarget is the backdrop div the handler is attached to.
handleBackdropClick(closeOnBackdropClick, target) ==
    closeOnBackdropClick /\ target = "backdrop"

\* The body of the overflow effect.
overflowEffect(isOpen) == IF isOpen THEN "hidden" ELSE "unset"

\* The cleanup of the overflow effect: document.body.style.overflow = 'unset'
overflowAfterCleanupKept(current) == current

overflowAfterCleanup(current) == "unset"

\* if (!isOpen) return null; otherwise the portal is rendered.
ModalRenders(isOpen) == isOpen

\* The document after React has run the passive effects of a render with
\* isOpen: the overflow effect (dependency [isOpen]) runs on the first render
\* and when isOpen differs from its last run, after its cleanup; the keydown
\* effect removes the listener of its last run and adds one that closes over
\* the isOpen of this render.
EffectsRun(listeners, overflow, isOpen) ==
    [ listeners |-> { isOpen },
      overflow  |-> IF listeners = {} \/ isOpen \notin listeners
                      THEN overflowEffect(isOpen)   \* overwrites what the cleanup wrote
                      ELSE overflow ]

\* The document after the cleanups of both effects of a removed Modal.
CleanupsRun(listeners, overflow) ==
    [ listeners |-> {},
      overflow  |-> overflowAfterCleanup(overflow) ]

\* The document once React has run what it owes; it does so at the latest
\* before it renders again.
ModalFlushed ==
    CASE mdOwed = "effects"  -> EffectsRun(mdKeyListeners, mdOverflow, mdIsOpen)
      [] mdOwed = "cleanups" -> CleanupsRun(mdKeyListeners, mdOverflow)
      [] OTHER               -> [ listeners |-> mdKeyListeners, overflow |-> mdOverflow ]

\* A render of the Modal with the given props is committed: the portal is on
\* screen or gone, and the effects of this render are owed.
ModalCommit(newOpen, newCob) ==
    /\ mdMounted' = TRUE
    /\ mdEverMounted' = TRUE
    /\ mdIsOpen' = newOpen
    /\ mdCloseOnBackdrop' = newCob
    /\ mdRendered' = ModalRenders(newOpen)
    /\ mdKeyListeners' = ModalFlushed.listeners
    /\ mdOverflow' = ModalFlushed.overflow
    /\ mdOwed' = "effects"

\* <Modal isOpen={open} closeOnBackdropClick={cob} ...> appears in the tree.
ModalMount(open, cob) ==
    /\ ~mdMounted
    /\ ModalCommit(open, cob)
    /\ mdLast' = [ NoModalEvent EXCEPT !.kind = "mount", !.owed = mdOwed ]
    /\ UNCHANGED mdOnCloseCalls
    /\ UNCHANGED offModalVars

\* The parent renders again with new props.
ModalSetProps(open, cob) ==
    /\ mdMounted
    /\ ModalCommit(open, cob)
    /\ mdLast' = [ NoModalEvent EXCEPT !.kind = "props", !.wasOpen = mdIsOpen,
                                       !.owed = mdOwed ]
    /\ UNCHANGED mdOnCloseCalls
    /\ UNCHANGED offModalVars

\* React runs the effects it owes for the last render.
ModalEffects ==
    /\ mdOwed = "effects"
    /\ mdKeyListeners' = ModalFlushed.listeners
    /\ mdOverflow' = ModalFlushed.overflow
    /\ mdOwed' = "none"
    /\ UNCHANGED << mdMounted, mdIsOpen, mdCloseOnBackdrop, mdRendered,
                    mdEverMounted, mdOnCloseCalls, mdLast >>
    /\ UNCHANGED offModalVars

\* The Modal leaves the tree: the portal is gone, the cleanups of both
\* effects are owed.
ModalUnmount ==
    /\ mdMounted
    /\ mdMounted' = FALSE
    /\ mdIsOpen' = FALSE
    /\ mdCloseOnBackdrop' = DefaultCloseOnBackdropClick
    /\ mdRendered' = FALSE
    /\ mdKeyListeners' = ModalFlushed.listeners
    /\ mdOverflow' = ModalFlushed.overflow
    /\ mdOwed' = "cleanups"
    /\ mdLast' = [ NoModalEvent EXCEPT !.kind = "unmount", !.wasOpen = mdIsOpen,
                                       !.owed = mdOwed ]
    /\ UNCHANGED << mdEverMounted, mdOnCloseCalls >>
    /\ UNCHANGED offModalVars

\* React runs the cleanups it owes for the removed Modal.
ModalCleanups ==
    /\ mdOwed = "cleanups"
    /\ mdKeyListeners' = ModalFlushed.listeners
    /\ mdOverflow' = ModalFlushed.overflow
    /\ mdOwed' = "none"
    /\ UNCHANGED << mdMounted, mdIsOpen, mdCloseOnBackdrop, mdRendered,
                    mdEverMounted, mdOnCloseCalls, mdLast >>
    /\ UNCHANGED offModalVars

\* What follows the handlers of one event: when onClose was called and the
\* parent's onClose closes an open modal, the Modal renders with isOpen false
\* inside the event (a key or click event is discrete: React runs what it
\* owes, renders, commits and runs the new effects before the event ends).
\* Setting the parent's state to the value it has renders nothing.
ModalAfterHandlers(calls, closes) ==
    /\ mdOnCloseCalls + calls <= MaxOnCloseCalls
    /\ mdOnCloseCalls' = mdOnCloseCalls + calls
    /\ IF calls > 0 /\ closes /\ mdMounted /\ mdIsOpen
         THEN LET after == EffectsRun(ModalFlushed.listeners, ModalFlushed.overflow, FALSE)
              IN  /\ mdIsOpen' = FALSE
                  /\ mdRendered' = ModalRenders(FALSE)
                  /\ mdKeyListeners' = after.listeners
                  /\ mdOverflow' = after.overflow
                  /\ mdOwed' = "none"
                  /\ UNCHANGED << mdMounted, mdCloseOnBackdrop, mdEverMounted >>
         ELSE UNCHANGED << mdMounted, mdIsOpen, mdCloseOnBackdrop, mdOverflow,
                           mdKeyListeners, mdRendered, mdEverMounted, mdOwed >>

\* A key goes down anywhere in the document: every registered keydown
\* listener runs.
ModalKeyDown(key, closes) ==
    LET calls == Cardinality({ l \in mdKeyListeners : handleEscape(key, l) })
    IN  /\ mdLast' = [ NoModalEvent EXCEPT !.kind = "keydown", !.key = key,
                           !.wasOpen = mdMounted /\ mdIsOpen,
                           !.closeOnBackdrop = mdCloseOnBackdrop,
                           !.escapeCalls = calls,
                           !.owed = mdOwed ]
        /\ ModalAfterHandlers(calls, closes)
        /\ UNCHANGED offModalVars

\* A click on an element of the rendered modal: the close button's onClick is
\* onClose itself, and the event bubbles to the backdrop's handler.
ModalClick(target, closes) ==
    LET button == IF target = "closeButton" THEN 1 ELSE 0
        backdrop == IF handleBackdropClick(mdCloseOnBackdrop, target) THEN 1 ELSE 0
    IN  /\ mdRendered
        /\ mdLast' = [ NoModalEvent EXCEPT !.kind = "click", !.target = target,
                           !.wasOpen = mdMounted /\ mdIsOpen,
                           !.closeOnBackdrop = mdCloseOnBackdrop,
                           !.backdropCalls = backdrop,
                           !.closeButtonCalls = button,
                           !.owed = mdOwed ]
        /\ ModalAfterHandlers(button + backdrop, closes)
        /\ UNCHANGED offModalVars

NextModal ==
    \/ \E open \in BOOLEAN, cob \in BOOLEAN : ModalMount(open, cob)
    \/ \E open \in BOOLEAN, cob \in BOOLEAN : ModalSetProps(open, cob)
    \/ ModalEffects
    \/ ModalUnmount
    \/ ModalCleanups
    \/ \E key \in Keys, closes \in BOOLEAN : ModalKeyDown(key, closes)
    \/ \E target \in ClickTargets, closes \in BOOLEAN : ModalClick(target, closes)

\* ------------------------------------- validatePassword (SpecPassword)
\* minLength = 8
DefaultMinLength == 8

\* The destructuring defaults of options.
DefaultPasswordOptions ==
    [ minLength |-> DefaultMinLength, requireUppercase |-> TRUE,
      requireLowercase |-> TRUE, requireNumbers |-> TRUE,
      requireSpecialChars |-> TRUE ]

\* Characters of the passwords tried, by the class the regular expressions
\* put them in; "_" is in none of the four classes.
UpperChars == { "W", "P" }
LowerChars == { "w", "e", "a", "k", "p", "s" }
DigitChars == { "1" }
SpecialChars == { "!", "?" }
OtherChars == { "_" }

\* /[A-Z]/.test(password) and the like: some character is in the class.
RegexTest(class, password) == \E i \in 1..Len(password) : password[i] \in class

\* The usage example's password, and one that passes every default rule.
WeakPass == << "w", "e", "a", "k", "p", "a", "s", "s" >>
StrongPass == << "W", "e", "a", "k", "p", "a", "s", "s", "1", "!" >>

ShortChars == { "a", "W", "1", "!", "_" }

RECURSIVE PasswordsUpTo(_)
PasswordsUpTo(n) ==
    IF n = 0 THEN { << >> }
    ELSE LET shorter == PasswordsUpTo(n - 1)
         IN  shorter \cup { Append(p, c) : p \in { q \in shorter : Len(q) = n - 1 },
                                           c \in ShortChars }

PasswordInputs == PasswordsUpTo(MaxPwLen) \cup { WeakPass, StrongPass }

PasswordOptions ==
    [ minLength : (0..MaxMinLength) \cup { DefaultMinLength },
      requireUppercase : BOOLEAN, requireLowercase : BOOLEAN,
      requireNumbers : BOOLEAN, requireSpecialChars : BOOLEAN ]

\* The five messages pushed to errors.
MsgMinLength(minLength) ==
    "Password must be at least " \o ToString(minLength) \o " characters long"
MsgUppercase == "Password must contain at least one uppercase letter"
MsgLowercase == "Password must contain at least one lowercase letter"
MsgNumbers == "Password must contain at least one number"
MsgSpecialChars == "Password must contain at least one special character"

\* password.length < minLength
lengthBelow(length, minLength) == length < minLength

validatePassword(password, o) ==
    LET e1 == IF lengthBelow(Len(password), o.minLength)
              THEN << MsgMinLength(o.minLength) >> ELSE << >>
        e2 == IF o.requireUppercase /\ ~RegexTest(UpperChars, password)
              THEN Append(e1, MsgUppercase) ELSE e1
        e3 == IF o.requireLowercase /\ ~RegexTest(LowerChars, password)
              THEN Append(e2, MsgLowercase) ELSE e2
        e4 == IF o.requireNumbers /\ ~RegexTest(DigitChars, password)
              THEN Append(e3, MsgNumbers) ELSE e3
        errors == IF o.requireSpecialChars /\ ~RegexTest(SpecialChars, password)
                  THEN Append(e4, MsgSpecialChars) ELSE e4
    IN  [ isValid |-> Len(errors) = 0, errors |-> errors ]

NoPasswordResult == [ isValid |-> FALSE, errors |-> << >> ]

PwIdle ==
    /\ pwPc = "idle"
    /\ pwPassword = << >>
    /\ pwOptions = DefaultPasswordOptions
    /\ pwResult = NoPasswordResult

InitPassword ==
    /\ pwPc = "input"
    /\ pwPassword \in PasswordInputs
    /\ pwOptions \in PasswordOptions
    /\ pwResult = NoPasswordResult

ValidatePasswordCall ==
    /\ pwPc = "input"
    /\ pwResult' = validatePassword(pwPassword, pwOptions)
    /\ pwPc' = "done"
    /\ UNCHANGED << pwPassword, pwOptions >>
    /\ UNCHANGED offPwVars

NextPassword == ValidatePasswordCall

\* --------------------------------------- createMockData (SpecMock)
\* count = 1
DefaultCount == 1

\* One schema field: its key and its config. value "" stands for a config
\* without value (or a falsy one), min 0 for a config without min.
Field(key, type) == [ key |-> key, type |-> type, value |-> "", min |-> 0, max |-> 0 ]

\* The schemas tried, as Object.entries yields them; the third is the usage
\* example's schema without its date field.
MockSchemas ==
    { << Field("id", "id") >>,
      << Field("name", "string"), Field("id", "id") >>,
      << Field("id", "id"), Field("name", "string"), Field("email", "email"),
         [ Field("age", "number") EXCEPT !.min = 18, !.max = 19 ],
         Field("active", "boolean") >>,
      << Field("id", "id"), [ Field("label", "string") EXCEPT !.value = "x" ],
         Field("score", "number"), Field("blob", "json") >>,
      << Field("created_at", "date") >> }

\* Values Math.random() can return, in thousandths.
RandomMilli == { 0, 500, 999 }

\* Math.floor(Math.random() * n) for a random value of r thousandths.
FloorRandomTimes(r, n) == (r * n) \div 1000

\* What new Date().toISOString() returns at the time of the call.
NowISOString == "2024-01-01T00:00:00.000Z"

\* record[key] = i + 1
recordIdZeroBased(i) == i

recordId(i) == i + 1

\* The switch on config.type: the fields with a known type get a value,
\* each field of a record in a type of its own.
FieldValue(f, i, r) ==
    CASE f.type = "id" -> recordId(i)
      [] f.type = "string" ->
            IF f.value # "" THEN f.value ELSE f.key \o "_" \o ToString(i + 1)
      [] f.type = "email" -> "user" \o ToString(i + 1) \o "@example.com"
      [] f.type = "number" ->
            IF f.min # 0 THEN FloorRandomTimes(r, f.max - f.min + 1) + f.min
                         ELSE FloorRandomTimes(r, 100)
      [] f.type = "boolean" -> r > 500
      [] f.type = "date" -> NowISOString

KnownTypes == { "id", "string", "email", "number", "boolean", "date" }

\* The record built by one iteration of the outer loop; rnd gives the random
\* value drawn for each field.
MockRecord(schema, i, rnd) ==
    LET known == { k \in 1..Len(schema) : schema[k].type \in KnownTypes }
        keys == { schema[k].key : k \in known }
        last(key) == CHOOSE k \in known :
                        /\ schema[k].key = key
                        /\ \A j \in known : schema[j].key = key => j <= k
    IN  [ key \in keys |-> FieldValue(schema[last(key)], i, rnd[last(key)]) ]

\* const createMockData = (schema, count = 1) => ...
EffectiveCount(args) == IF args.hasCount THEN args.count ELSE DefaultCount

NothingReturned == [ kind |-> "none", items |-> << >> ]

MockIdle ==
    /\ mkPc = "idle"
    /\ mkSchema = << >>
    /\ mkArgs = [ hasCount |-> FALSE, count |-> 0 ]
    /\ mkI = 0
    /\ mkData = << >>
    /\ mkReturned = NothingReturned

InitMock ==
    /\ mkPc = "loop"
    /\ mkSchema \in MockSchemas
    /\ mkArgs \in { [ hasCount |-> FALSE, count |-> 0 ] }
                    \cup [ hasCount : { TRUE }, count : 0..MaxCount ]
    /\ mkI = 0
    /\ mkData = << >>
    /\ mkReturned = NothingReturned

\* One iteration of for (let i = 0; i < count; i++): mockData.push(record)
MockPushRecord(rnd) ==
    /\ mkPc = "loop"
    /\ mkI < EffectiveCount(mkArgs)
    /\ mkData' = Append(mkData, MockRecord(mkSchema, mkI, rnd))
    /\ mkI' = mkI + 1
    /\ UNCHANGED << mkPc, mkSchema, mkArgs, mkReturned >>
    /\ UNCHANGED offMockVars

\* return count === 1 ? mockData[0] : mockData;
mockReturnValue(count, mockData) ==
    IF count = 1 THEN [ kind |-> "record", items |-> << mockData[1] >> ]
                 ELSE [ kind |-> "array", items |-> mockData ]

MockReturn ==
    /\ mkPc = "loop"
    /\ ~(mkI < EffectiveCount(mkArgs))
    /\ mkReturned' = mockReturnValue(EffectiveCount(mkArgs), mkData)
    /\ mkPc' = "done"
    /\ UNCHANGED << mkSchema, mkArgs, mkI, mkData >>
    /\ UNCHANGED offMockVars

NextMock ==
    \/ \E rnd \in [ 1..Len(mkSchema) -> RandomMilli ] : MockPushRecord(rnd)
    \/ MockReturn

\* ------------------------------------------ Hero buttons (SpecHero)
\* Ids an element of the page around Hero can carry; Hero's own section is
\* always there.
HeroPageIds == { "hero", "about", "portfolio", "contact" }

NoHeroClick == [ button |-> "none", id |-> "none", found |-> FALSE, before |-> 0 ]

\* Hero alone on an otherwise empty page, nothing clicked yet.
HeroIdle ==
    /\ hrDom = { "hero" }
    /\ hrRequests = << >>
    /\ hrThrown = FALSE
    /\ hrLast = NoHeroClick

\* Hero on a page that holds any of the other sections.
InitHero ==
    /\ hrDom \in { d \in SUBSET HeroPageIds : "hero" \in d }
    /\ hrRequests = << >>
    /\ hrThrown = FALSE
    /\ hrLast = NoHeroClick

\* document.getElementById(id): the element, or null.
getElementById(dom, id) == id \in dom

\* Faulty variant of scrollIfFound: scrollIntoView is called on null.
scrollUnguarded(found) == IF found THEN "scrolled" ELSE "threw"

\* if (element) element.scrollIntoView(...), and likewise
\* document.getElementById('contact')?.scrollIntoView(...)
scrollIfFound(found) == IF found THEN "scrolled" ELSE "nothing"

\* A click on a button whose handler looks up `id` and scrolls to it.
HeroClick(button, id) ==
    LET found == getElementById(hrDom, id)
        outcome == scrollIfFound(found)
    IN  /\ (outcome = "scrolled" => Len(hrRequests) < MaxScrollRequests)
        /\ hrRequests' =
              IF outcome = "scrolled"
              THEN Append(hrRequests, [ id |-> id, behavior |-> "smooth" ])
              ELSE hrRequests
        /\ hrThrown' = (hrThrown \/ outcome = "threw")
        /\ hrLast' = [ button |-> button, id |-> id, found |-> found,
                        before |-> Len(hrRequests) ]
        /\ UNCHANGED hrDom

\* The scroll hint button: onClick={scrollToAbout}
HeroScrollHintClick ==
    /\ HeroClick("scrollHint", "about")
    /\ UNCHANGED offHeroVars

\* The contact button:
\* onClick={() => document.getElementById('contact')?.scrollIntoView(...)}
HeroContactButtonClick ==
    /\ HeroClick("contact", "contact")
    /\ UNCHANGED offHeroVars

\* Another section of the page is rendered or removed.
SectionAppears(id) ==
    /\ id \in HeroPageIds \ hrDom
    /\ hrDom' = hrDom \cup { id }
    /\ UNCHANGED << hrRequests, hrThrown, hrLast >>
    /\ UNCHANGED offHeroVars

SectionDisappears(id) ==
    /\ id \in hrDom \ { "hero" }
    /\ hrDom' = hrDom \ { id }
    /\ UNCHANGED << hrRequests, hrThrown, hrLast >>
    /\ UNCHANGED offHeroVars

NextHero ==
    \/ HeroScrollHintClick
    \/ HeroContactButtonClick
    \/ \E id \in HeroPageIds : SectionAppears(id)
    \/ \E id \in HeroPageIds : SectionDisappears(id)
    \/ \E t \in LandingLinkTargets : LandingLinkClick(t)

\* ------------------------------ CustomButton (SpecCustomButton)
\* static get observedAttributes()
observedAttributes == { "variant", "size", "disabled", "loading" }

\* The values tried for each attribute; "absent" is getAttribute() === null.
AttributeValues(name) ==
    CASE name = "variant" -> { "absent", "danger" }
      [] name = "size" -> { "absent", "large" }
      [] name = "disabled" -> { "absent", "" }
      [] name = "loading" -> { "absent", "" }

\* get disabled() / get loading(): this.hasAttribute(name)
hasAttribute(attrs, name) == attrs[name] # "absent"

\* render(): ${this.disabled || this.loading ? 'disabled' : ''} on the button
innerButtonDisabled(attrs) ==
    hasAttribute(attrs, "disabled") \/ hasAttribute(attrs, "loading")

\* handleClick: the number of custom 'click' events one listener dispatches.
cbHandleClick(attrs) ==
    IF ~hasAttribute(attrs, "disabled") /\ ~hasAttribute(attrs, "loading")
    THEN 1 ELSE 0

NoCbClick ==
    [ kind |-> "none", connected |-> FALSE, disabled |-> FALSE, loading |-> FALSE,
      dispatched |-> 0 ]

\* document.createElement('custom-button'): the constructor attaches the
\* shadow root and renders; the element is not connected yet.
InitCustomButton ==
    /\ cbConnected = FALSE
    /\ cbAttrs = [ name \in observedAttributes |-> "absent" ]
    /\ cbInnerDisabled = FALSE
    /\ cbListeners = 0
    /\ cbLast = NoCbClick

\* connectedCallback: addEventListener('click', this.handleClick.bind(this))
\* on the current inner button; each bind makes a new function.
connectedCallback ==
    /\ ~cbConnected
    /\ cbListeners < MaxListeners
    /\ cbConnected' = TRUE
    /\ cbListeners' = cbListeners + 1
    /\ cbLast' = [ NoCbClick EXCEPT !.kind = "connect" ]
    /\ UNCHANGED << cbAttrs, cbInnerDisabled >>
    /\ UNCHANGED offCbVars

\* removeEventListener('click', this.handleClick.bind(this)): the function
\* passed is a new one, which was never added, so nothing is removed.
listenersAfterRemove(n) == n

disconnectedCallback ==
    /\ cbConnected
    /\ cbConnected' = FALSE
    /\ cbListeners' = listenersAfterRemove(cbListeners)
    /\ cbLast' = [ NoCbClick EXCEPT !.kind = "disconnect" ]
    /\ UNCHANGED << cbAttrs, cbInnerDisabled >>
    /\ UNCHANGED offCbVars

\* An observed attribute is set or removed; attributeChangedCallback runs
\* render() when the value changed: shadowRoot.innerHTML is replaced, so the
\* inner button is a new element without listeners.
attributeChangedCallback(name, newValue) ==
    /\ name \in observedAttributes
    /\ newValue \in AttributeValues(name)
    /\ cbAttrs' = [ cbAttrs EXCEPT ![name] = newValue ]
    /\ IF cbAttrs[name] # newValue
         THEN /\ cbInnerDisabled' = innerButtonDisabled(cbAttrs')
              /\ cbListeners' = 0
         ELSE UNCHANGED << cbInnerDisabled, cbListeners >>
    /\ cbLast' = [ NoCbClick EXCEPT !.kind = "attribute" ]
    /\ UNCHANGED cbConnected
    /\ UNCHANGED offCbVars

\* A click on the inner button of the connected element: a button with the
\* disabled attribute fires no click event; otherwise every listener runs.
InnerButtonClick ==
    /\ cbConnected
    /\ cbLast' = [ kind |-> "click", connected |-> cbConnected,
                    disabled |-> hasAttribute(cbAttrs, "disabled"),
                    loading |-> hasAttribute(cbAttrs, "loading"),
                    dispatched |-> IF cbInnerDisabled THEN 0
                                   ELSE cbListeners * cbHandleClick(cbAttrs) ]
    /\ UNCHANGED << cbConnected, cbAttrs, cbInnerDisabled, cbListeners >>
    /\ UNCHANGED offCbVars

NextCustomButton ==
    \/ connectedCallback
    \/ disconnectedCallback
    \/ \E name \in observedAttributes :
           \E newValue \in AttributeValues(name) : attributeChangedCallback(name, newValue)
    \/ InnerButtonClick

\* ------------------------------------------------------ specifications
Init ==
    /\ InitPage /\ FilterIdle /\ InitLanding /\ InitButton /\ DebounceIdle /\ TxIdle
    /\ HttpIdle /\ InitModal /\ PwIdle /\ MockIdle /\ HeroIdle /\ InitCustomButton

Next ==
    \/ \E c \in CategoryIds : SelectCategory(c)
    \/ \E y \in 0..MaxScroll : WindowScroll(y)
    \/ ScrollEventDispatch
    \/ RenderScrollUpdate
    \/ EnterViewport
    \/ HeroScrollToAbout
    \/ HeroContactClick
    \/ \E i \in 1..Len(ProjectsLiteral) : ProjectCardClick(i)
    \/ ViewMoreClick
    \/ Unmount
    \/ UnmountCleanup
    \/ Mount
    \/ MountEffect

Spec == Init /\ [][Next]_vars

\* ------------------------------------------------------------ SpecFilter
InitF ==
    /\ InitPage /\ InitFilter /\ InitLanding /\ InitButton /\ DebounceIdle /\ TxIdle
    /\ HttpIdle /\ InitModal /\ PwIdle /\ MockIdle /\ HeroIdle /\ InitCustomButton

NextFilter ==
    \/ ApplyFilter
    \/ ApplyFilterAgain

SpecFilter == InitF /\ [][NextFilter]_vars

SpecButton == Init /\ [][NextButton]_vars

InitD ==
    /\ InitPage /\ FilterIdle /\ InitLanding /\ InitButton /\ InitDebounce /\ TxIdle
    /\ HttpIdle /\ InitModal /\ PwIdle /\ MockIdle /\ HeroIdle /\ InitCustomButton

SpecDebounce == InitD /\ [][NextDebounce]_vars

SpecTransaction == Init /\ [][NextTx]_vars

SpecHttp == Init /\ [][NextHttp]_vars

SpecModal == Init /\ [][NextModal]_vars

InitP ==
    /\ InitPage /\ FilterIdle /\ InitLanding /\ InitButton /\ DebounceIdle /\ TxIdle
    /\ HttpIdle /\ InitModal /\ InitPassword /\ MockIdle /\ HeroIdle /\ InitCustomButton

SpecPassword == InitP /\ [][NextPassword]_vars

InitM ==
    /\ InitPage /\ FilterIdle /\ InitLanding /\ InitButton /\ DebounceIdle /\ TxIdle
    /\ HttpIdle /\ InitModal /\ PwIdle /\ InitMock /\ HeroIdle /\ InitCustomButton

SpecMock == InitM /\ [][NextMock]_vars

InitHr ==
    /\ InitPage /\ FilterIdle /\ InitLanding /\ InitButton /\ DebounceIdle /\ TxIdle
    /\ HttpIdle /\ InitModal /\ PwIdle /\ MockIdle /\ InitHero /\ InitCustomButton

SpecHero == InitHr /\ [][NextHero]_vars

SpecCustomButton == Init /\ [][NextCustomButton]_vars

\* ============================================ properties of the filter
\* (all checked under SpecFilter)

FilterApplied == fpc \in { "once", "twice" }

\* The list of the spec's three concrete scenarios.
ScenarioList ==
    << [id |-> 1, category |-> "mobile"],
       [id |-> 2, category |-> "web"],
       [id |-> 3, category |-> "mobile"] >>

Ids(s) == [ i \in 1..Len(s) |-> s[i].id ]

NoItemTagged(items, c) == \A i \in 1..Len(items) : items[i].category # c

\* s is t with zero or more elements left out (order kept).
RECURSIVE IsSubsequence(_, _)
IsSubsequence(s, t) ==
    IF s = << >> THEN TRUE
    ELSE IF t = << >> THEN FALSE
    ELSE IF Head(s) = Head(t) THEN IsSubsequence(Tail(s), Tail(t))
    ELSE IsSubsequence(s, Tail(t))

Occurrences(x, s) == Cardinality({ j \in 1..Len(s) : s[j] = x })

\* C1: for every item list L, filter(L, "all") is exactly L, the same elements
\* in the same order; for Portfolio's own list this is the six projects 1..6.
C1_AllIsIdentity ==
    (FilterApplied /\ fSel = "all") =>
        /\ fOut = fIn
        /\ (fIn = ProjectsLiteral => Ids(fOut) = << 1, 2, 3, 4, 5, 6 >>)

C1_Witness ==
    /\ FilterApplied
    /\ fSel = "all"
    /\ fIn = ScenarioList
    /\ fOut = ScenarioList

\* C2 as stated: for every item list L and any category c, "all" included,
\* every element of filter(L, c) has category c.
C2_EveryElementHasCategory ==
    FilterApplied => \A i \in 1..Len(fOut) : fOut[i].category = fSel

\* C2 amended: for every item list L and any category c other than the
\* sentinel "all", every element of filter(L, c) has category c.
C2_EveryElementHasCategoryUnlessAll ==
    (FilterApplied /\ fSel # "all") =>
        \A i \in 1..Len(fOut) : fOut[i].category = fSel

C2_Witness ==
    /\ FilterApplied
    /\ fSel = "web"
    /\ Len(fIn) = 3
    /\ Len(fOut) = 2
    /\ \A i \in 1..Len(fOut) : fOut[i].category = "web"

\* C3: for every item list L and category c, filter(L, c) is a sub-sequence
\* of L in L's order that holds each item of L whose category is c exactly
\* once; [1:mobile, 2:web, 3:mobile] with c = "mobile" gives [1, 3].
C3_OrderedSubsequenceOfAllMatches ==
    FilterApplied =>
        /\ IsSubsequence(fOut, fIn)
        /\ \A i \in 1..Len(fIn) :
               fIn[i].category = fSel => Occurrences(fIn[i], fOut) = 1
        /\ \A j \in 1..Len(fOut) : Occurrences(fOut[j], fOut) = 1
        /\ (fIn = ScenarioList /\ fSel = "mobile" => Ids(fOut) = << 1, 3 >>)

C3_Witness ==
    /\ FilterApplied
    /\ fIn = ScenarioList
    /\ fSel = "mobile"
    /\ fOut = << [id |-> 1, category |-> "mobile"], [id |-> 3, category |-> "mobile"] >>

\* C4 as stated: for every item list L and every category value c that tags
\* no item of L, filter(L, c) is the empty sequence.
C4_AbsentCategoryGivesEmpty ==
    (FilterApplied /\ NoItemTagged(fIn, fSel)) => fOut = << >>

\* C4 amended: for every item list L and every category value c other than
\* the sentinel "all" that tags no item of L, filter(L, c) is the empty
\* sequence, an ordinary result.
C4_AbsentCategoryGivesEmptyUnlessAll ==
    (FilterApplied /\ fSel # "all" /\ NoItemTagged(fIn, fSel)) =>
        /\ fOut = << >>
        /\ fOut \in Seq(ItemUniverse)

C4_Witness ==
    /\ FilterApplied
    /\ fIn = ScenarioList
    /\ fSel = "desktop"
    /\ fOut = << >>

\* C5: filter(filter(L, c), c) = filter(L, c) for every item list L and every
\* category c, "all" included.
C5_Idempotent == fpc = "twice" => fOut2 = fOut

C5_Witness ==
    /\ fpc = "twice"
    /\ fIn = ScenarioList
    /\ fSel = "mobile"
    /\ Ids(fOut) = << 1, 3 >>
    /\ Ids(fOut2) = << 1, 3 >>

\* ============================================== properties of the page
\* (all checked under Spec)

\* The category selected last in this session, "all" if none was.
EffectiveSelection == IF lastSelected = "none" THEN "all" ELSE lastSelected

\* C6: after any sequence of category selections the displayed list is
\* filter(projects, c) for the category c selected last ("all" if none was):
\* every selection takes effect at once and earlier ones leave no trace.
C6_DisplayFollowsLastSelection ==
    mounted =>
        /\ filter = EffectiveSelection
        /\ displayed = filteredProjects(ProjectsLiteral, EffectiveSelection)
        /\ (EffectiveSelection = "all" => Ids(displayed) = << 1, 2, 3, 4, 5, 6 >>)
        /\ (EffectiveSelection = "web" => Ids(displayed) = << 2, 4, 5 >>)
        /\ (EffectiveSelection = "mobile" => Ids(displayed) = << 1, 3, 6 >>)

C6_Witness ==
    /\ mounted
    /\ lastEvent = "select"
    /\ prevSelected = "web"
    /\ lastSelected = "mobile"
    /\ Ids(displayed) = << 1, 3, 6 >>

\* C7: in every reachable state the filter state is "all" or a category that
\* tags at least one item of the project list.
C7_FilterIsAllOrPresentTag ==
    \/ filter = "all"
    \/ \E i \in 1..Len(projects) : projects[i].category = filter

C7_Witness ==
    /\ mounted
    /\ lastEvent = "select"
    /\ filter = "web"
    /\ \E i \in 1..Len(projects) : projects[i].category = "web"

\* C8: the filter state is "all" in the initial state and right after every
\* reload (remount), whatever the previous session had selected.
C8_FilterIsAllAfterLoad ==
    lastEvent \in { "init", "mount" } => (mounted /\ filter = "all")

C8_Witness ==
    /\ lastEvent = "mount"
    /\ prevSession = "web"
    /\ filter = "all"

\* C9: while the component is mounted its filter state changes only by a
\* click on a category control: window scroll, the section entering the
\* viewport, the hero buttons, project cards and the "view more" button all
\* leave it as it is.
C9_OnlyCategoryClickWritesFilter ==
    [][ /\ (lastEvent' \in { "windowScroll", "scroll", "scrollUnheard",
                             "scrollRender", "inview", "heroAbout", "heroContact",
                             "card", "viewMore", "unmount", "cleanup", "mountEffect" }
               => filter' = filter)
        /\ ((mounted /\ mounted' /\ filter' # filter) => lastEvent' = "select")
      ]_vars

C9_Witness ==
    /\ mounted
    /\ filter = "web"
    /\ lastEvent = "scroll"
    /\ scrollY > 0
    /\ isInView
    /\ scrollTarget = "contact"

\* C11: in every reachable state the displayed list is a (possibly improper)
\* subset of the project list in the project list's order, and it is the
\* whole project list whenever the filter state is "all".
C11_DisplayedIsOrderedSubset ==
    /\ IsSubsequence(displayed, projects)
    /\ \A j \in 1..Len(displayed) : \E i \in 1..Len(projects) : displayed[j] = projects[i]
    /\ ((mounted /\ filter = "all") => displayed = projects)

C11_Witness ==
    /\ mounted
    /\ lastEvent = "select"
    /\ prevSelected = "mobile"
    /\ filter = "all"
    /\ displayed = projects
    /\ Len(displayed) = 6

C11_WitnessProper ==
    /\ mounted
    /\ filter = "web"
    /\ Ids(displayed) = << 2, 4, 5 >>
    /\ Len(projects) = 6

\* C12: item ids are unique in the project list, so the cards displayed in
\* any reachable state, under any selected category, have pairwise distinct
\* ids (the render keys never collide).
C12_DisplayedIdsDistinct ==
    /\ UniqueIds(projects)
    /\ UniqueIds(displayed)

C12_Witness ==
    /\ mounted
    /\ filter = "mobile"
    /\ Len(displayed) = 3
    /\ UniqueIds(displayed)

\* C13 (as stated): every in-page navigation target of a rendered control
\* names a section that exists on the same page: the element ids Hero's
\* buttons look up are sections of the Next.js page, every scroll request
\* went to one of them, and the fragment a landing-page link navigated to is
\* the id of an element of the landing page.
C13_NavigationTargetsExist ==
    /\ HeroLookupIds \subseteq SectionIds
    /\ \A k \in 1..Len(hrRequests) : hrRequests[k].id \in SectionIds
    /\ (landingHash # "" => landingHash \in LandingElementIds)

\* ================================ properties of the documented components

\* C14: for the React Button, the Vue VButton and the Angular ButtonComponent
\* alike, a click while disabled or loading is true never invokes the click
\* handler (onClick / emitted click), and a click while both are false
\* invokes it exactly once. (Checked under SpecButton.)
C14_ClickGuardedByDisabledAndLoading ==
    btnLast.fw # "none" =>
        /\ ((btnLast.disabled \/ btnLast.loading) => btnLast.calls = 0)
        /\ ((~btnLast.disabled /\ ~btnLast.loading /\ btnLast.listening)
               => btnLast.calls = 1)

C14_Witness ==
    /\ btnLast.fw = "react"
    /\ btnLast.loading
    /\ ~btnLast.disabled
    /\ btnLast.listening
    /\ btnLast.calls = 0

C14_WitnessInvoked ==
    /\ btnLast.fw = "angular"
    /\ ~btnLast.loading
    /\ ~btnLast.disabled
    /\ btnLast.calls = 1

\* C15: when every call of the debounced function comes less than delay
\* after the one before, func is invoked at most once, with the arguments of
\* the last call and not before delay has passed since that call, and it
\* has been invoked exactly once when no timer is left; the invocation of an
\* earlier call never runs. (Checked under SpecDebounce.)
C15_BurstInvokesOnceWithLastArgs ==
    (dbBurst /\ dbCalls > 0) =>
        /\ Len(dbInvoked) <= 1
        /\ \A t \in dbTimers : t.args = dbLastCall.args /\ t.due = dbLastCall.at + dbDelay
        /\ (dbTimers = { } <=> Len(dbInvoked) = 1)
        /\ \A k \in 1..Len(dbInvoked) :
               /\ dbInvoked[k].args = dbLastCall.args
               /\ dbInvoked[k].at >= dbLastCall.at + dbDelay

C15_Witness ==
    /\ dbBurst
    /\ dbCalls = 3
    /\ dbDelay = 2
    /\ dbLastCall.at >= 2
    /\ dbLastCall.args = "test query final"
    /\ dbTimers = { }
    /\ Len(dbInvoked) = 1
    /\ dbInvoked[1].args = "test query final"

InLog(stmt) == \E k \in 1..Len(txLog) : txLog[k] = stmt

\* C16 (as stated): BEGIN is sent before the callback runs; when the callback
\* and COMMIT succeed the callback's result is returned and no ROLLBACK is
\* sent; when BEGIN, the callback or COMMIT throws, ROLLBACK is sent and that
\* error is rethrown to the caller; a result is never returned for a
\* transaction that was not committed. (Checked under SpecTransaction.)
C16_CommitOrRollbackAndRethrow ==
    /\ (txPc \in { "callback", "awaitQuery", "commit", "awaitCommit" } =>
           (txLog # << >> /\ txLog[1] = "BEGIN"))
    /\ (\A k \in 1..Len(txLog) : txLog[k] = "QUERY" => (k > 1 /\ txLog[1] = "BEGIN"))
    /\ (txOutcome = "resolved" =>
           /\ txCommitted
           /\ txValue = txResult
           /\ txResult \in TxResults
           /\ ~InLog("ROLLBACK"))
    /\ ((txPc = "settled" /\ txCommitted) => txOutcome = "resolved")
    /\ ((txPc = "settled" /\ txCaught # "none") =>
           /\ InLog("ROLLBACK")
           /\ txOutcome = "rejected"
           /\ txValue = txCaught)

\* C17: whenever pool.connect() succeeded, the client is released exactly
\* once by the time the transaction settles, on every path (success, BEGIN,
\* callback or COMMIT failure, ROLLBACK that throws), and never more than
\* once; a client that was never acquired is never released. In the pools'
\* books: between a successful connect and the release the transaction holds
\* one client, and before and after it holds none, so what is checked out
\* then is what connectToDatabase took and dropped.
\* (Checked under SpecTransaction.)
C17_ClientReleasedExactlyOnce ==
    /\ txReleased <= 1
    /\ (txReleased = 1 => txAcquired)
    /\ ((txPc = "settled" /\ txAcquired) => txReleased = 1)
    /\ (txOutcome # "pending" => txPc = "settled")
    /\ (txPc \in { "idle", "connect", "awaitConnect", "settled" } =>
           txPoolInUse + txOldInUse = cdLeaked)
    /\ (txPc \notin { "idle", "connect", "awaitConnect", "settled" } =>
           txPoolInUse + txOldInUse = cdLeaked + 1)

\* The second transaction on a pool of which connectToDatabase holds a
\* client: COMMIT failed, ROLLBACK threw, and the client was released once.
C17_Witness ==
    /\ txPc = "settled"
    /\ txAcquired
    /\ cdLeaked = 1
    /\ txPoolInUse = 1
    /\ txCaught = "E_commit"
    /\ txValue = "E_rollback"
    /\ txOutcome = "rejected"
    /\ txReleased = 1
    /\ txRun = 2

\* C18 (as stated): for every value of options.retries, httpGet performs at
\* most `retries` requests, stops at the first request that succeeds and
\* resolves with its parsed data, waits 1000 * 2^i ms after failed attempt i
\* before the next one, rejects with the last attempt's error when all
\* attempts fail, and never resolves without response data.
\* (Checked under SpecHttp.)
C18_RetriesThenDataOrLastError ==
    /\ hRequests <= hRetries
    /\ (\A k \in 1..Len(hWaits) : hWaits[k] = BackoffBaseMs * Pow2(k - 1))
    /\ (hPc \in { "awaitFetch", "awaitJson" } => hRequests = Len(hWaits) + 1)
    /\ (hPc = "wait" => Len(hWaits) = hRequests)
    /\ (hOutcome = "resolved" => hValue \in HttpData)
    /\ (hOutcome = "rejected" =>
           /\ hValue = hLastError
           /\ hRequests = hRetries)
    /\ (hPc = "done" => hOutcome # "pending")

\* C19 (as stated): pressing Escape calls onClose if and only if the modal is
\* open (mounted with isOpen true); the backdrop's click handler calls onClose
\* only when closeOnBackdropClick is true and the click landed on the backdrop
\* itself; and a modal that is not open renders nothing.
\* (Checked under SpecModal.)
C19_EscapeBackdropAndClosedRender ==
    /\ (mdLast.kind = "keydown" /\ mdLast.key = "Escape" =>
           (mdLast.escapeCalls >= 1 <=> mdLast.wasOpen))
    /\ (mdLast.kind = "click" /\ mdLast.backdropCalls >= 1 =>
           mdLast.closeOnBackdrop /\ mdLast.target = "backdrop")
    /\ (~(mdMounted /\ mdIsOpen) => ~mdRendered)

\* C19 (amended): once React has run the effects it owes for the last render
\* or removal, pressing Escape calls onClose if and only if the modal is open
\* (mounted with isOpen true); at any time Escape calls onClose at most once
\* and no other key calls it; the backdrop's click handler calls onClose only
\* when closeOnBackdropClick is true and the click landed on the backdrop
\* itself; and a modal that is not open renders nothing.
\* (Checked under SpecModal.)
C19_EscapeBackdropAndClosedRenderAfterEffects ==
    /\ (mdLast.kind = "keydown" /\ mdLast.key = "Escape" /\ mdLast.owed = "none" =>
           (mdLast.escapeCalls >= 1 <=> mdLast.wasOpen))
    /\ (mdLast.kind = "keydown" =>
           /\ mdLast.escapeCalls <= 1
           /\ (mdLast.escapeCalls >= 1 => mdLast.key = "Escape"))
    /\ (mdLast.kind = "click" /\ mdLast.backdropCalls >= 1 =>
           mdLast.closeOnBackdrop /\ mdLast.target = "backdrop")
    /\ (~(mdMounted /\ mdIsOpen) => ~mdRendered)

\* Escape was pressed while the modal was open and its effects had run, and
\* onClose was called.
C19_Witness ==
    /\ mdLast.kind = "keydown"
    /\ mdLast.key = "Escape"
    /\ mdLast.owed = "none"
    /\ mdLast.wasOpen
    /\ mdLast.escapeCalls = 1

\* Escape was pressed while the modal was mounted but closed: no call.
C19_WitnessClosed ==
    /\ mdLast.kind = "keydown"
    /\ mdLast.key = "Escape"
    /\ mdLast.owed = "none"
    /\ mdMounted
    /\ ~mdLast.wasOpen
    /\ mdLast.escapeCalls = 0

\* The backdrop was clicked with closeOnBackdropClick true: onClose called.
C19_WitnessBackdrop ==
    /\ mdLast.kind = "click"
    /\ mdLast.target = "backdrop"
    /\ mdLast.backdropCalls = 1

\* Escape was pressed after the parent closed the modal and before the
\* effects of that render ran: the listener of the open render called onClose.
C19_WitnessStaleListener ==
    /\ mdLast.kind = "keydown"
    /\ mdLast.key = "Escape"
    /\ mdLast.owed = "effects"
    /\ ~mdLast.wasOpen
    /\ mdLast.escapeCalls = 1

\* C20 (as stated): document.body's overflow is 'hidden' exactly while the
\* modal is mounted with isOpen true, and once a modal has been mounted it is
\* 'unset' whenever the modal is closed or unmounted.
\* (Checked under SpecModal.)
C20_ScrollLockedExactlyWhileOpen ==
    /\ (mdOverflow = "hidden" <=> (mdMounted /\ mdIsOpen))
    /\ (mdEverMounted /\ ~(mdMounted /\ mdIsOpen) => mdOverflow = "unset")

\* C20 (amended): once React has run the effects it owes for the last render
\* or removal, document.body's overflow is 'hidden' exactly while the modal
\* is mounted with isOpen true and, a modal having been mounted, 'unset'
\* whenever the modal is closed or unmounted; at any time 'hidden' was
\* written by a modal, and while the lock lags behind, effects are owed.
\* (Checked under SpecModal.)
C20_ScrollLockedExactlyWhileOpenAfterEffects ==
    /\ (mdOwed = "none" =>
           /\ (mdOverflow = "hidden" <=> (mdMounted /\ mdIsOpen))
           /\ (mdEverMounted /\ ~(mdMounted /\ mdIsOpen) => mdOverflow = "unset"))
    /\ (mdOverflow = "hidden" => mdEverMounted)
    /\ (mdOwed = "effects" => mdMounted)
    /\ (mdOwed = "cleanups" => ~mdMounted)

\* The modal was unmounted while it was open, the cleanups have run and the
\* lock is gone.
C20_Witness ==
    /\ mdLast.kind = "unmount"
    /\ mdLast.wasOpen
    /\ ~mdMounted
    /\ mdOwed = "none"
    /\ mdOverflow = "unset"

\* ---------------------------------------------------------------- C21
PasswordRules == { "minLength", "uppercase", "lowercase", "numbers", "specialChars" }

\* What it means for a password to break a rule that the options ask for.
ViolatesRule(r, password, o) ==
    CASE r = "minLength" -> Len(password) < o.minLength
      [] r = "uppercase" ->
            o.requireUppercase /\ \A i \in 1..Len(password) : password[i] \notin UpperChars
      [] r = "lowercase" ->
            o.requireLowercase /\ \A i \in 1..Len(password) : password[i] \notin LowerChars
      [] r = "numbers" ->
            o.requireNumbers /\ \A i \in 1..Len(password) : password[i] \notin DigitChars
      [] r = "specialChars" ->
            o.requireSpecialChars
                /\ \A i \in 1..Len(password) : password[i] \notin SpecialChars

RuleMessage(r, o) ==
    CASE r = "minLength" -> MsgMinLength(o.minLength)
      [] r = "uppercase" -> MsgUppercase
      [] r = "lowercase" -> MsgLowercase
      [] r = "numbers" -> MsgNumbers
      [] r = "specialChars" -> MsgSpecialChars

\* errors holds one message per violated rule, and isValid iff errors is empty.
OneMessagePerViolatedRule ==
    pwPc = "done" =>
        /\ Len(pwResult.errors) =
               Cardinality({ r \in PasswordRules : ViolatesRule(r, pwPassword, pwOptions) })
        /\ \A r \in PasswordRules :
               ViolatesRule(r, pwPassword, pwOptions) <=>
                   \E i \in 1..Len(pwResult.errors) :
                       pwResult.errors[i] = RuleMessage(r, pwOptions)
        /\ (pwResult.isValid <=> pwResult.errors = << >>)

WeakPassValidated ==
    pwPc = "done" /\ pwPassword = WeakPass /\ pwOptions = DefaultPasswordOptions

\* C21 (as stated): validatePassword('weakpass') with default options gives
\* isValid false and four errors in this order: minimum length, uppercase,
\* number, special character; and in general one message per violated rule
\* with isValid iff errors is empty.
C21_WeakpassFourErrors ==
    /\ (WeakPassValidated =>
           pwResult = [ isValid |-> FALSE,
                        errors |-> << MsgMinLength(DefaultMinLength), MsgUppercase,
                                      MsgNumbers, MsgSpecialChars >> ])
    /\ OneMessagePerViolatedRule

\* ---------------------------------------------------------------- C22
\* The keys of the schema whose config has type 'id'.
IdKeys(schema) == { schema[k].key : k \in { j \in 1..Len(schema) : schema[j].type = "id" } }

\* The records are numbered 1.. in order in every 'id' field.
IdsNumberedInOrder(items, schema) ==
    \A j \in 1..Len(items) : \A key \in IdKeys(schema) : items[j][key] = j

C22_WitnessDefault ==
    /\ mkPc = "done"
    /\ ~mkArgs.hasCount
    /\ IdKeys(mkSchema) # {}
    /\ mkReturned.kind = "record"

\* ---------------------------------------------------------------- C23
\* C23: while Portfolio is mounted exactly one category control is rendered
\* as active, and it is the control whose id equals the selected category;
\* right after a click on a control, that control is the active one.
C23_ExactlyOneActiveControl ==
    mounted =>
        /\ Cardinality(ActiveControls) = 1
        /\ \A i \in ActiveControls : categories[i] = filter
        /\ (lastEvent = "select" =>
               \A i \in ActiveControls : categories[i] = lastSelected)

\* A control other than the initial one was clicked and is the active one.
C23_Witness ==
    /\ mounted
    /\ lastEvent = "select"
    /\ lastSelected = "web"
    /\ ActiveControls = { 2 }

\* ---------------------------------------------------------------- C24
NonAllCategories == CategoryIds \ { "all" }

\* The view of control c: what line 76 shows of the project list.
View(c) == filteredProjects(ProjectsLiteral, c)

InView(p, c) == \E i \in 1..Len(View(c)) : View(c)[i] = p

InSomeNonAllView(p) == \E c \in NonAllCategories : InView(p, c)

\* The views of the controls other than "all", merged in list order.
MergedViews == SelectSeq(ProjectsLiteral, InSomeNonAllView)

\* C24: the controls other than "all" partition the project list: every
\* project is in the view of exactly one of them, two different views share
\* no project, and the views merged in list order are the "all" view; every
\* view rendered so far is the view of its control.
C24_NonAllControlsPartitionProjects ==
    /\ \A r \in rendered : r[3] = View(r[2])
    /\ \A i \in 1..Len(ProjectsLiteral) :
           Cardinality({ c \in NonAllCategories : InView(ProjectsLiteral[i], c) }) = 1
    /\ \A c, d \in NonAllCategories :
           c # d => ~\E i \in 1..Len(ProjectsLiteral) :
                        InView(ProjectsLiteral[i], c) /\ InView(ProjectsLiteral[i], d)
    /\ MergedViews = View("all")

\* Every control has been clicked: all three views have been on screen.
C24_Witness ==
    /\ mounted
    /\ { r[2] : r \in rendered } = CategoryIds
    /\ lastEvent = "select"

\* ---------------------------------------------------------------- C25
\* C25: filter(L, "all") returns every item of L whatever its category, also
\* when L holds items tagged "all": the result is as long as L, holds each
\* item of L once, and keeps the items that are not tagged "all".
C25_SentinelBeatsTagMatching ==
    (FilterApplied /\ fSel = "all") =>
        /\ Len(fOut) = Len(fIn)
        /\ \A i \in 1..Len(fIn) : Occurrences(fIn[i], fOut) = 1
        /\ \A i \in 1..Len(fIn) :
               fIn[i].category # "all" =>
                   \E j \in 1..Len(fOut) : fOut[j] = fIn[i]

\* "all" was applied to a list that mixes items tagged "all" with others.
C25_Witness ==
    /\ FilterApplied
    /\ fSel = "all"
    /\ \E i, j \in 1..Len(fIn) :
           fIn[i].category = "all" /\ fIn[j].category # "all"
    /\ Len(fOut) = Len(fIn)

\* ---------------------------------------------------------------- C26
\* C26: a click on Hero's scroll hint or contact button requests one smooth
\* scroll to the element with id 'about' / 'contact' when the document holds
\* that element, and does nothing when it does not: no request, no error.
\* (Checked under SpecHero.)
C26_ScrollsOnlyToExistingTarget ==
    /\ ~hrThrown
    /\ (hrLast.button # "none" =>
           /\ hrLast.id = (IF hrLast.button = "scrollHint" THEN "about" ELSE "contact")
           /\ IF hrLast.found
              THEN /\ Len(hrRequests) = hrLast.before + 1
                   /\ hrRequests[Len(hrRequests)] =
                          [ id |-> hrLast.id, behavior |-> "smooth" ]
              ELSE Len(hrRequests) = hrLast.before)
    /\ \A k \in 1..Len(hrRequests) : hrRequests[k].id \in { "about", "contact" }

\* The contact button was clicked on a page without a contact element after
\* an earlier click had scrolled to the about section.
C26_Witness ==
    /\ hrLast.button = "contact"
    /\ ~hrLast.found
    /\ Len(hrRequests) = 1
    /\ hrRequests[1].id = "about"

\* ---------------------------------------------------------------- C27
\* C27 (as stated): over any sequence of mount, scroll, re-render and unmount
\* events, at most one scroll listener of Home is registered on window, it is
\* registered exactly while Home is mounted (so none remains after unmount),
\* and the scrollY state of a mounted Home changes only by a scroll event, to
\* the window's scroll offset at that event; while Home stays unmounted
\* nothing is written.
C27_ScrollListenerLifecycle ==
    /\ [](scrollListeners \in { 0, 1 } /\ (scrollListeners = 1 <=> mounted))
    /\ [][ /\ ((mounted /\ mounted' /\ scrollY' # scrollY) =>
                  (lastEvent' \in { "scroll", "scrollRender" }
                   /\ scrollY' = windowScrollY'))
           /\ ((~mounted /\ ~mounted') => scrollY' = scrollY) ]_vars

\* C27 (amended): at most one scroll listener of Home is registered on
\* window; it is registered from the run of the mount effect to the run of
\* its cleanup, so whenever React owes no effect it is registered exactly
\* while Home is mounted, it is missing between the first render and the
\* mount effect, and it is still there between the removal and the cleanup.
\* The scrollY state of a mounted Home changes only in the render of an
\* update that a scroll event queued, to the offset the handler read; an
\* update is queued only by a scroll event delivered to the listener of a
\* mounted Home, with the window's offset at that event; while Home stays
\* unmounted nothing is written or queued.
C27_ScrollListenerLifecycleAfterEffects ==
    /\ [](scrollListeners \in { 0, 1 })
    /\ [](effectPending = "none" => (scrollListeners = 1 <=> mounted))
    /\ [](effectPending = "mount" => (mounted /\ scrollListeners = 0))
    /\ [](effectPending = "cleanup" => (~mounted /\ scrollListeners = 1))
    /\ [][ /\ ((mounted /\ mounted' /\ scrollY' # scrollY) =>
                  (/\ lastEvent' = "scrollRender"
                   /\ scrollYUpdate.pending
                   /\ scrollY' = scrollYUpdate.value))
           /\ ((scrollYUpdate'.pending /\ scrollYUpdate' # scrollYUpdate) =>
                  (/\ lastEvent' = "scroll"
                   /\ mounted
                   /\ scrollListeners = 1
                   /\ scrollYUpdate'.value = windowScrollY'))
           /\ ((~mounted /\ ~mounted') =>
                  (scrollY' = scrollY /\ ~scrollYUpdate'.pending)) ]_vars

\* After an unmount, its cleanup, a remount and its mount effect, a scroll
\* event was delivered to the one listener of the new instance and the
\* window scrolled on before React rendered the queued offset.
C27_Witness ==
    /\ mounted
    /\ prevSession # "none"
    /\ effectPending = "none"
    /\ lastEvent = "scrollRender"
    /\ scrollListeners = 1
    /\ scrollY > 0
    /\ scrollY # windowScrollY

\* ---------------------------------------------------------------- C28
\* C28 (as stated): after any sequence of connectedCallback,
\* disconnectedCallback and observed attribute changes, a click on the inner
\* button of a connected element that is neither disabled nor loading
\* dispatches exactly one custom 'click' event, and a disconnected element
\* keeps no click listener registered by the component.
\* (Checked under SpecCustomButton.)
C28_OneEventPerClickNoLeftoverListener ==
    /\ (cbLast.kind = "click" /\ cbLast.connected /\ ~cbLast.disabled /\ ~cbLast.loading
           => cbLast.dispatched = 1)
    /\ (~cbConnected => cbListeners = 0)

\* The first half of C28 alone: one custom event per click of an enabled,
\* connected element.
C28_OneEventPerClick ==
    cbLast.kind = "click" /\ cbLast.connected /\ ~cbLast.disabled /\ ~cbLast.loading
        => cbLast.dispatched = 1

====
